---------------------------- MODULE Spec2Model ----------------------------
(***************************************************************************)
(* Model of the keyword-matching ("legacy ATS") engine of the resume       *)
(* screener.  Texts are TLA+ strings; a character is a string of length 1. *)
(* The phrase-table variant is src/unnamed/part_000 (lines 1-94), the      *)
(* simple word-boundary variant is                                         *)
(* src/ats-benchmarker/src/lib/engines/legacy.ts (lines 1-69).             *)
(***************************************************************************)
EXTENDS Integers, Sequences, FiniteSets, TLC

VARIABLES
    text,           \* argument of a direct call of a pure text function
    called,         \* which function was last called on text ("none" before)
    normalised,     \* value returned by normaliseWithPhrases(text)
    keywords,       \* value returned by extractKeywords(text)
    resumeText,     \* first argument of runLegacyATS
    jobDescription, \* second argument of runLegacyATS
    typed,          \* number of fragments typed into the two engine inputs
    engine,         \* which engine variant produced result ("none" before)
    result,         \* the LegacyATSResult returned by the engine
    jdLength,       \* jdKeywords.length when the matching loop has ended
    matchedLength,  \* matched.length when the matching loop has ended
    rated,          \* the matchRate and score computed from the two lengths
    lowered,        \* normaliseWithPhrases: its local variable lower
    pass,           \* normaliseWithPhrases: phrases its loop has applied
    legacyScore,    \* evaluate page: legacy.score
    semanticScore,  \* evaluate page: semantic.score
    aiScore,        \* evaluate page: aiRecruiter.Score
    compositeScore, \* evaluate page: compositeScore
    serviceReply,   \* what the outside service answered to the call
    outcome,        \* whether the call returned or threw, and what
    callLog,        \* the calls of runSemanticATS made so far, oldest first
    route,          \* the API route that got the request ("none" before)
    envKey,         \* whether the API key of the route's service is set
    requestBody,    \* the body of the request
    response,       \* the response of the route
    invocations,    \* the calls of an engine the route has made
    pageState,      \* evaluate page: pageState
    engineStatus,   \* evaluate page: engineStatus
    pageResult,     \* evaluate page: result
    errorMsg,       \* evaluate page: errorMsg
    user,           \* the user supabase.auth.getUser() yields
    runs,           \* the calls of handleSubmit, oldest first
    requests,       \* the requests the page has sent, oldest first
    inserted,       \* the rows the page has inserted into "evaluations"
    deployed,       \* which file's request interceptor the site runs
    session,        \* whether the request's cookies hold a valid session
    location,       \* the path the browser is requesting
    proxyResponse,  \* what the interceptor answered for location
    redirects,      \* the redirects the browser has followed so far
    upload,         \* the request the PDF route got
    parseResponse,  \* the response of the PDF route
    selectedFile,   \* UploadZone: selectedFile
    jdInput,        \* UploadZone: jobDescription, the text of the textarea
    dropState,      \* UploadZone: dropState
    fileError,      \* UploadZone: fileError
    jdError,        \* UploadZone: jdError
    lastSubmit      \* the latest call of UploadZone's handleSubmit

\* the state of the keyword engine and of its text functions
coreVars == <<text, called, normalised, keywords,
              resumeText, jobDescription, typed, engine, result,
              jdLength, matchedLength, rated>>

\* the state of everything else
\* the local variable and the loop counter of normaliseWithPhrases
loopVars == <<lowered, pass>>

\* the three scores the evaluate page combines, and the composite
scoreVars == <<legacyScore, semanticScore, aiScore, compositeScore>>

\* one call of an engine: the reply it got and how it ended
callVars == <<serviceReply, outcome, callLog>>

\* one request to an engine's API route
routeVars == <<route, envKey, requestBody, response, invocations>>

\* the evaluate page and what it has sent
pageVars == <<pageState, engineStatus, pageResult, errorMsg, user, runs,
              requests, inserted>>

\* one navigation of a browser through the request interceptor
proxyVars == <<deployed, session, location, proxyResponse, redirects>>

\* the parts of the site around the engines and the evaluate page
\* one request to the PDF route
parseVars == <<upload, parseResponse>>

\* the upload form
zoneVars == <<selectedFile, jdInput, dropState, fileError, jdError,
              lastSubmit>>

restVars == <<proxyVars, parseVars, zoneVars>>

otherVars == <<loopVars, scoreVars, callVars, routeVars, pageVars, restVars>>

\* what the loop of normaliseWithPhrases leaves alone
outsideLoop == <<scoreVars, callVars, routeVars, pageVars, restVars>>

\* what the computation of the composite score leaves alone
outsideComposite == <<coreVars, loopVars, callVars, routeVars, pageVars,
                      restVars>>

\* what one call of an engine leaves alone
outsideCall == <<text, called, normalised, keywords, typed, engine, result,
                 jdLength, matchedLength, rated, loopVars, scoreVars,
                 routeVars, pageVars, restVars>>

vars == <<coreVars, otherVars>>

(***************************************************************************)
(* Bounds of the model.                                                    *)
(***************************************************************************)
\* fragments appended to a seed text before a text function is called
MaxAppend == 2
\* fragments appended, in total, to the seed resume and job description
MaxTyped == 1
\* keywords of a job description whose score is computed from the lengths
MaxKeywords == 400

(***************************************************************************)
(* Characters.                                                             *)
(***************************************************************************)
CharAt(s, i) == SubSeq(s, i, i)

CharsOf(s) == { CharAt(s, i) : i \in 1..Len(s) }

UpperCase == "ABCDEFGHIJKLMNOPQRSTUVWXYZ"

LowerCase == "abcdefghijklmnopqrstuvwxyz"

LowerLetters == CharsOf(LowerCase)

Digits == CharsOf("0123456789")

\* the class [a-z0-9] of the matcher's lookbehind and lookahead
AlnumLower == LowerLetters \cup Digits

\* the characters JavaScript's \s matches, among those of the model
WhiteSpace == {" ", "\t", "\n", "\r", "\f"}

\* the characters JavaScript's "." does not match
LineTerminators == {"\n", "\r"}

\* String.prototype.toLowerCase on one character
UpperToLower ==
    [c \in CharsOf(UpperCase) |->
        LET i == CHOOSE k \in 1..Len(UpperCase) : CharAt(UpperCase, k) = c
        IN  CharAt(LowerCase, i)]

ToLowerChar(c) == IF c \in DOMAIN UpperToLower THEN UpperToLower[c] ELSE c

Min(S) == CHOOSE x \in S : \A y \in S : x <= y

\* the string made of F applied to each character of s (s is split in
\* halves, which keeps the evaluation shallow)
RECURSIVE MapChars(_, _)
MapChars(F(_), s) ==
    IF Len(s) = 0 THEN ""
    ELSE IF Len(s) = 1 THEN F(s)
    ELSE LET h == Len(s) \div 2
         IN  MapChars(F, SubSeq(s, 1, h)) \o MapChars(F, SubSeq(s, h + 1, Len(s)))

toLowerCase(s) == MapChars(ToLowerChar, s)

(***************************************************************************)
(* The static tables of the phrase-table variant.                          *)
(***************************************************************************)
STOP_WORDS == {
  "a","about","above","after","again","against","all","also","am","an","and",
  "any","are","aren't","as","at","be","because","been","before","being","below",
  "between","both","but","by","can","can't","cannot","could","couldn't","did",
  "didn't","do","does","doesn't","doing","don't","down","during","each","few",
  "for","from","further","get","got","had","hadn't","has","hasn't","have",
  "haven't","having","he","he'd","he'll","he's","her","here","here's","hers",
  "herself","him","himself","his","how","how's","i","i'd","i'll","i'm","i've",
  "if","in","into","is","isn't","it","it's","its","itself","let's","me","more",
  "most","mustn't","my","myself","no","nor","not","of","off","on","once","only",
  "or","other","ought","our","ours","ourselves","out","over","own","same","shan't",
  "she","she'd","she'll","she's","should","shouldn't","so","some","such","than",
  "that","that's","the","their","theirs","them","themselves","then","there",
  "there's","these","they","they'd","they'll","they're","they've","this","those",
  "through","to","too","under","until","up","very","was","wasn't","we","we'd",
  "we'll","we're","we've","were","weren't","what","what's","when","when's",
  "where","where's","which","while","who","who's","whom","why","why's","will",
  "with","won't","would","wouldn't","you","you'd","you'll","you're","you've",
  "your","yours","yourself","yourselves",
  "work","working","role","team","company","business","position","job",
  "experience","years","ability","strong","excellent","good","great","new",
  "responsible","responsibilities","including","ensure","across","within",
  "make","use","using","used","help","need","well","able","must","plus","via",
  "etc","per","key","day","days","time","based","looking","require","required" }

COMPOUND_PHRASES == <<
  "machine learning","artificial intelligence","natural language processing",
  "data structures","design patterns","system design","distributed systems",
  "continuous integration","continuous deployment","test driven development",
  "object oriented","functional programming","version control",
  "rest api","graphql api","grpc","event driven","micro services",
  "next.js","react.js","node.js","vue.js","angular.js",
  "aws lambda","google cloud","azure devops",
  "row level security","full stack","front end","back end" >>

(***************************************************************************)
(* normaliseWithPhrases: lower-case, then one global replace per phrase.   *)
(***************************************************************************)
\* new RegExp(phrase, "g") tried at position i of s: every character of the
\* phrase is a literal of the pattern, except "." which matches any
\* character but a line terminator
PhraseMatchesAt(phrase, s, i) ==
    /\ i + Len(phrase) - 1 <= Len(s)
    /\ \A j \in 1..Len(phrase) :
          IF CharAt(phrase, j) = "."
          THEN CharAt(s, i + j - 1) \notin LineTerminators
          ELSE CharAt(s, i + j - 1) = CharAt(phrase, j)

\* the phrase put back as it is
JoinPhraseUnchanged(phrase) == phrase

\* phrase.replace(/\s+/g, "-"): each run of whitespace becomes one hyphen
JoinPhrase(phrase) ==
    LET f[i \in 0..Len(phrase)] ==
            IF i = 0 THEN ""
            ELSE IF CharAt(phrase, i) \in WhiteSpace
                 THEN IF i > 1 /\ CharAt(phrase, i - 1) \in WhiteSpace
                      THEN f[i - 1]
                      ELSE f[i - 1] \o "-"
                 ELSE f[i - 1] \o CharAt(phrase, i)
    IN  f[Len(phrase)]

\* the replace without the "g" flag: only the first match is replaced
ReplaceFirst(phrase, replacement, s) ==
    LET found == { j \in 1..Len(s) : PhraseMatchesAt(phrase, s, j) }
    IN  IF found = {} THEN s
        ELSE SubSeq(s, 1, Min(found) - 1) \o replacement
                \o SubSeq(s, Min(found) + Len(phrase), Len(s))

\* s.replace(new RegExp(phrase, "g"), replacement): the search starts at
\* position 1, takes the leftmost match, copies the text before it, emits
\* the replacement and resumes right after the match
ReplaceAll(phrase, replacement, s) ==
    LET n == Len(s)
        from[i \in 1..(n + 1)] ==
            LET found == { j \in i..n : PhraseMatchesAt(phrase, s, j) }
            IN  IF found = {} THEN SubSeq(s, i, n)
                ELSE LET j == Min(found)
                     IN  SubSeq(s, i, j - 1) \o replacement
                            \o from[j + Len(phrase)]
    IN  from[1]

\* F applied to the value of e (e is evaluated once, before F's body)
ApplyTo(F(_), e) == CHOOSE r \in { F(v) : v \in {e} } : TRUE

\* F applied to the values of e1 and e2
ApplyTo2(F(_, _), e1, e2) ==
    CHOOSE r \in { F(v, w) : v \in {e1}, w \in {e2} } : TRUE

\* the passes of the for-loop of normaliseWithPhrases for the phrases
\* first..last of the table, applied to s in table order (the range is cut
\* in two to keep the evaluation shallow: the passes first..mid are done on
\* s, then the passes mid+1..last on their result)
RECURSIVE NormalisePasses(_, _, _)
NormalisePasses(s, first, last) ==
    IF first > last THEN s
    ELSE IF first = last
         THEN ReplaceAll(COMPOUND_PHRASES[first],
                         JoinPhrase(COMPOUND_PHRASES[first]), s)
    ELSE LET mid == (first + last) \div 2
             Rest(done) == NormalisePasses(done, mid + 1, last)
         IN  ApplyTo(Rest, NormalisePasses(s, first, mid))

normaliseWithPhrases(t) ==
    LET Passes(lower) == NormalisePasses(lower, 1, Len(COMPOUND_PHRASES))
    IN  ApplyTo(Passes, toLowerCase(t))

(***************************************************************************)
(* extractKeywords (phrase-table variant).                                 *)
(***************************************************************************)
\* the characters the cleaning pattern [^a-z0-9\-+#.\s] leaves in place,
\* whitespace apart
KeywordChars == AlnumLower \cup {"-", "+", "#", "."}

\* no cleaning at all
CleanCharKeepsAll(c) == c

CleanChar(c) == IF c \in KeywordChars \cup WhiteSpace THEN c ELSE " "

\* .replace(/[^a-z0-9\-+#.\s]/g, " ")
Clean(s) == MapChars(CleanChar, s)

Max(S) == CHOOSE x \in S : \A y \in S : x >= y

\* s.split(/\s+/): the pieces between the maximal runs of whitespace; a run
\* at the start or at the end of s leaves an empty piece there, and the
\* empty string splits into one empty piece
SplitWhitespace(s) ==
    LET n == Len(s)
        from[i \in 1..(n + 1)] ==
            LET ws == { j \in i..n : CharAt(s, j) \in WhiteSpace }
            IN  IF ws = {} THEN << SubSeq(s, i, n) >>
                ELSE LET j == Min(ws)
                         e == Max({ k \in j..n :
                                    \A m \in j..k : CharAt(s, m) \in WhiteSpace })
                     IN  << SubSeq(s, i, j - 1) >> \o from[e + 1]
    IN  from[1]

\* String.prototype.trim: the text from its first to its last character
\* that is no white space, found from the two ends
Trim(t) ==
    LET RECURSIVE FirstSolid(_), LastSolid(_)
        FirstSolid(i) ==
            IF i > Len(t) \/ CharAt(t, i) \notin WhiteSpace THEN i
            ELSE FirstSolid(i + 1)
        LastSolid(i) ==
            IF CharAt(t, i) \notin WhiteSpace THEN i ELSE LastSolid(i - 1)
        Cut(from) ==
            IF from > Len(t) THEN "" ELSE SubSeq(t, from, LastSolid(Len(t)))
    IN  ApplyTo(Cut, FirstSolid(1))

\* /^\d+$/.test(t)
IsNumeric(t) == Len(t) > 0 /\ \A i \in 1..Len(t) : CharAt(t, i) \in Digits

DigitValue(c) == CHOOSE d \in 0..9 : CharAt("0123456789", d + 1) = c

\* +t for a string of digits: its decimal value (leading zeros do not
\* count; a value of more than nine significant digits is reported as
\* 10^9, which is above every number a token is compared with)
ToNumber(t) ==
    LET nz == { i \in 1..Len(t) : CharAt(t, i) # "0" }
    IN  IF nz = {} THEN 0
        ELSE LET sig == SubSeq(t, Min(nz), Len(t))
                 v[i \in 0..Len(sig)] ==
                     IF i = 0 THEN 0 ELSE 10 * v[i - 1] + DigitValue(CharAt(sig, i))
             IN  IF Len(sig) > 9 THEN 1000000000 ELSE v[Len(sig)]

MinTokenLength == 2

MinYearDigits == 4

MinYear == 1990

MaxYear == 2040

\* the filter with t.length <= 2 in place of t.length < 2
KeepTokenLongerThanTwo(t) ==
    IF Len(t) <= MinTokenLength THEN FALSE
    ELSE IF t \in STOP_WORDS THEN FALSE
    ELSE IF IsNumeric(t) /\ (Len(t) < MinYearDigits \/ ToNumber(t) < MinYear
                             \/ ToNumber(t) > MaxYear) THEN FALSE
    ELSE TRUE

\* the callback of .filter(...) in extractKeywords
KeepToken(t) ==
    IF Len(t) < MinTokenLength THEN FALSE
    ELSE IF t \in STOP_WORDS THEN FALSE
    ELSE IF IsNumeric(t) /\ (Len(t) < MinYearDigits \/ ToNumber(t) < MinYear
                             \/ ToNumber(t) > MaxYear) THEN FALSE
    ELSE TRUE

\* the elements of seq whose index is in keep, in the order of seq
SelectIndices(seq, keep) ==
    LET f[i \in 0..Len(seq)] ==
            IF i = 0 THEN << >>
            ELSE IF i \in keep THEN Append(f[i - 1], seq[i]) ELSE f[i - 1]
    IN  f[Len(seq)]

\* .map((t) => t.trim())
TrimAll(tokens) == [i \in 1..Len(tokens) |-> Trim(tokens[i])]

\* .filter(callback)
FilterTokens(tokens) ==
    SelectIndices(tokens, { i \in 1..Len(tokens) : KeepToken(tokens[i]) })

\* a de-duplication that keeps the last occurrence of each token
DedupeKeepsLast(tokens) ==
    SelectIndices(tokens, { i \in 1..Len(tokens) :
                            \A j \in (i + 1)..Len(tokens) : tokens[j] # tokens[i] })

\* [...new Set(tokens)]: a Set iterates in insertion order, and inserting a
\* value it already holds changes nothing
Dedupe(tokens) ==
    SelectIndices(tokens, { i \in 1..Len(tokens) :
                            \A j \in 1..(i - 1) : tokens[j] # tokens[i] })

\* the tokens of extractKeywords before the Set removes the repetitions
FilteredTokens(t) ==
    FilterTokens(TrimAll(SplitWhitespace(Clean(normaliseWithPhrases(t)))))

extractKeywords(t) == Dedupe(FilteredTokens(t))

(***************************************************************************)
(* Numbers.  A quotient of two integers is kept as a fraction in lowest    *)
(* terms; it stands for the double nearest to it, which is what JavaScript *)
(* computes for a / b.  NaN is the value of 0 / 0.                         *)
(***************************************************************************)
RECURSIVE GCD(_, _)
GCD(a, b) == IF b = 0 THEN a ELSE GCD(b, a % b)

NaN == [num |-> 0, den |-> 0]

\* a / b for integers a >= 0 and b >= 0
Quotient(a, b) ==
    IF b = 0 THEN NaN
    ELSE LET g == GCD(a, b) IN [num |-> a \div g, den |-> b \div g]

(***************************************************************************)
(* IEEE 754 double arithmetic, as far as the score needs it.  A positive   *)
(* double is [mant, exp], standing for mant * 2^(-exp); mant is an integer *)
(* of at most 53 bits (or 2^53) written in base 2^12, most significant     *)
(* limb first.                                                             *)
(***************************************************************************)
LimbBits == 12

LimbBase == 2 ^ LimbBits

MantissaBits == 53

\* the number of bits of v, for 0 < v < 2^30
BitLength(v) == Min({ e \in 1..30 : v < 2 ^ e })

\* limbs + c, for 0 <= c < LimbBase (a carry out of the first limb makes
\* the number one limb longer)
AddSmall(limbs, c) ==
    LET n == Len(limbs)
        \* carry[i]: what is carried into limb i from the limbs after it
        carry[i \in 1..(n + 1)] ==
            IF i = n + 1 THEN c
            ELSE LET Out(in) == (limbs[i + 1] + in) \div LimbBase
                 IN  IF i = n THEN c ELSE ApplyTo(Out, carry[i + 1])
        body == [i \in 1..n |-> (limbs[i] + carry[i]) % LimbBase]
        top == (limbs[1] + carry[1]) \div LimbBase
    IN  IF top = 0 THEN body ELSE << top >> \o body

\* limbs * c, for 0 < c < LimbBase
TimesSmall(limbs, c) ==
    LET n == Len(limbs)
        carry[i \in 1..n] ==
            LET Out(in) == (limbs[i + 1] * c + in) \div LimbBase
            IN  IF i = n THEN 0 ELSE ApplyTo(Out, carry[i + 1])
        body == [i \in 1..n |-> (limbs[i] * c + carry[i]) % LimbBase]
        top == (limbs[1] * c + carry[1]) \div LimbBase
    IN  IF top = 0 THEN body ELSE << top >> \o body

\* the number of bits of the integer written by limbs (its first limb > 0)
LimbsBitLength(limbs) == BitLength(limbs[1]) + LimbBits * (Len(limbs) - 1)

\* bit e (of weight 2^e) of the integer written by limbs
BitOf(limbs, e) ==
    LET i == Len(limbs) - (e \div LimbBits)
    IN  IF i < 1 THEN 0 ELSE (limbs[i] \div (2 ^ (e % LimbBits))) % 2

\* the integer written by limbs with its d lowest bits cleared, 0 <= d <= 12
ClearLow(limbs, d) ==
    LET n == Len(limbs)
    IN  IF d = LimbBits
        THEN [limbs EXCEPT ![n] = 0]
        ELSE [limbs EXCEPT ![n] = limbs[n] - (limbs[n] % (2 ^ d))]

\* the integer written by limbs rounded to a multiple of 2^d, to the nearest
\* one and to the one with an even quotient on a tie (0 <= d <= 12)
RoundLow(limbs, d) ==
    LET n == Len(limbs)
        low == limbs[n] % (2 ^ d)
        half == IF d = 0 THEN 1 ELSE 2 ^ (d - 1)
        up == d > 0 /\ (low > half \/ (low = half /\ BitOf(limbs, d) = 1))
        cleared == ClearLow(limbs, d)
    IN  IF ~up THEN cleared
        ELSE IF d = LimbBits
             THEN AddSmall(SubSeq(cleared, 1, n - 1), 1) \o << 0 >>
             ELSE LET bumped == cleared[n] + 2 ^ d
                  IN  IF bumped < LimbBase THEN [cleared EXCEPT ![n] = bumped]
                      ELSE AddSmall(SubSeq(cleared, 1, n - 1), 1) \o << 0 >>

\* a double [mant, exp] rounded to 53 significant bits
RoundToDouble(mant, exp) ==
    LET Rounded(m) ==
            LET extra == LimbsBitLength(m) - MantissaBits
            IN  IF extra <= 0 THEN [mant |-> m, exp |-> exp]
                ELSE [mant |-> RoundLow(m, extra), exp |-> exp]
    IN  ApplyTo(Rounded, mant)

\* the double nearest to a / b, for integers 0 < a < b: the quotient
\* a * 2^exp / b, with exp chosen to give it 53 bits, is found limb by limb
\* by long division and rounded on the remainder
DoubleOfFraction(a, b) ==
    LET gap == BitLength(b) - BitLength(a)
        \* the least k with a * 2^k >= b
        lead == IF a * (2 ^ gap) >= b THEN gap ELSE gap + 1
        exp == lead + MantissaBits - 1
        limbCount == exp \div LimbBits
        head == a * (2 ^ (exp % LimbBits))
        \* rem[j]: the remainder after j limbs of the fraction
        rem[j \in 0..limbCount] ==
            LET Step(r) == (r * LimbBase) % b
            IN  IF j = 0 THEN head % b ELSE ApplyTo(Step, rem[j - 1])
        digits == [j \in 1..limbCount |-> (rem[j - 1] * LimbBase) \div b]
        quotient == << head \div b >> \o digits
        last == rem[limbCount]
        up == 2 * last > b \/ (2 * last = b /\ BitOf(quotient, 0) = 1)
    IN  [mant |-> IF up THEN AddSmall(quotient, 1) ELSE quotient, exp |-> exp]

\* x * c in double arithmetic, for a double x and an integer 0 < c < 4096
DoubleTimes(x, c) == RoundToDouble(TimesSmall(x.mant, c), x.exp)

\* the integer written by the limbs, which must be below 2^31
LimbsValue(limbs) ==
    LET v[i \in 0..Len(limbs)] ==
            IF i = 0 THEN 0 ELSE v[i - 1] * LimbBase + limbs[i]
    IN  v[Len(limbs)]

\* Math.round(x) for a double x < 2^18: floor(x + 0.5), computed exactly
MathRound(x) ==
    LET whole == x.exp \div LimbBits
        n == Len(x.mant)
        high == IF n > whole THEN LimbsValue(SubSeq(x.mant, 1, n - whole)) ELSE 0
        shift == x.exp % LimbBits
    IN  (high \div (2 ^ shift)) + BitOf(x.mant, x.exp - 1)

\* Math.floor in place of Math.round
RoundTimesTruncated(x, k) == (x.num * k) \div x.den

\* Math.round(x * k) for a fraction 0 <= x <= 1 and an integer 0 < k < 4096
RoundTimes(x, k) ==
    IF x.num = 0 THEN 0
    ELSE IF x.num = x.den THEN k
    ELSE MathRound(DoubleTimes(DoubleOfFraction(x.num, x.den), k))

(***************************************************************************)
(* runLegacyATS (phrase-table variant).                                    *)
(***************************************************************************)
\* the characters of the class [.*+?^${}()|[\]\\]
RegexSpecial == {".", "*", "+", "?", "^", "$", "{", "}", "(", ")", "|",
                 "[", "]", "\\"}

\* no character is escaped
EscapeNothing(c) == c

EscapeChar(c) == IF c \in RegexSpecial THEN "\\" \o c ELSE c

\* keyword.replace(/[.*+?^${}()|[\]\\]/g, "\\$&")
EscapeRegex(keyword) == MapChars(EscapeChar, keyword)

\* the atoms of a pattern source made of plain characters, escaped
\* characters and ".": a backslash makes the next character a literal, an
\* unescaped "." matches any character but a line terminator
PatternAtoms(source) ==
    LET n == Len(source)
        from[i \in 1..(n + 1)] ==
            IF i > n THEN << >>
            ELSE IF CharAt(source, i) = "\\" /\ i < n
                 THEN << [kind |-> "literal", ch |-> CharAt(source, i + 1)] >>
                        \o from[i + 2]
            ELSE IF CharAt(source, i) = "."
                 THEN << [kind |-> "any", ch |-> "."] >> \o from[i + 1]
            ELSE << [kind |-> "literal", ch |-> CharAt(source, i)] >>
                    \o from[i + 1]
    IN  from[1]

\* one atom against one character under the "i" flag
AtomMatchesIgnoreCase(atom, c) ==
    IF atom.kind = "any" THEN c \notin LineTerminators
    ELSE ToLowerChar(c) = ToLowerChar(atom.ch)

\* the class [a-z0-9] under the "i" flag
IsAlnumIgnoreCase(c) == ToLowerChar(c) \in AlnumLower

\* (?<![a-z0-9]) before position i of s
NotAfterAlnum(s, i) == i = 1 \/ ~IsAlnumIgnoreCase(CharAt(s, i - 1))

\* the pattern without its lookahead
NoLookahead(s, i) == TRUE

\* \b in place of the lookahead
WordBoundaryAfter(s, i) ==
    (i > 1 /\ ToLowerChar(CharAt(s, i - 1)) \in AlnumLower \cup { "_" })
        # (i <= Len(s) /\ ToLowerChar(CharAt(s, i)) \in AlnumLower \cup { "_" })

\* (?![a-z0-9]) at position i of s
NotBeforeAlnum(s, i) == i > Len(s) \/ ~IsAlnumIgnoreCase(CharAt(s, i))

\* new RegExp(`(?<![a-z0-9])${escaped}(?![a-z0-9])`, "i").test(s)
BoundaryPatternTest(escaped, s) ==
    LET atoms == PatternAtoms(escaped)
        m == Len(atoms)
    IN  \E i \in 1..(Len(s) - m + 1) :
            /\ NotAfterAlnum(s, i)
            /\ \A j \in 1..m : AtomMatchesIgnoreCase(atoms[j], CharAt(s, i + j - 1))
            /\ NotBeforeAlnum(s, i + m)

\* the indices of the keywords the for-loop pushes to matched
MatchedIndices(jdKeywords, normalisedResume) ==
    { i \in 1..Len(jdKeywords) :
        BoundaryPatternTest(EscapeRegex(jdKeywords[i]), normalisedResume) }

\* the loop without its else: every keyword is pushed to missing
PushLoopNoElse(jdKeywords, hit) ==
    [ matched |-> SelectIndices(jdKeywords, hit),
      missing |-> jdKeywords ]

\* the two lists the for-loop leaves: a keyword whose pattern was found is
\* pushed to matched, any other keyword to missing
PushLoop(jdKeywords, hit) ==
    [ matched |-> SelectIndices(jdKeywords, hit),
      missing |-> SelectIndices(jdKeywords, (1..Len(jdKeywords)) \ hit) ]

\* the division without the test for an empty keyword list
MatchRateUnguarded(matchedCount, total) == Quotient(matchedCount, total)

\* jdKeywords.length > 0 ? matched.length / jdKeywords.length : 0
MatchRate(matchedCount, total) ==
    IF total > 0 THEN Quotient(matchedCount, total) ELSE Quotient(0, 1)

\* Math.round(matchRate * 1000) / 10
ScoreOf(matchRate) ==
    IF matchRate = NaN THEN NaN ELSE Quotient(RoundTimes(matchRate, 1000), 10)

\* the object the phrase-table variant returns
LegacyATSResult(jdKeywords, lists) ==
    [ score           |-> ScoreOf(MatchRate(Len(lists.matched), Len(jdKeywords))),
      matchedKeywords |-> lists.matched,
      missingKeywords |-> lists.missing,
      totalJDKeywords |-> Len(jdKeywords),
      matchRate       |-> MatchRate(Len(lists.matched), Len(jdKeywords)) ]

runLegacyATS(resume, jd) ==
    LET Loop(jdKeywords, normalisedResume) ==
            ApplyTo2(LegacyATSResult, jdKeywords,
                     PushLoop(jdKeywords,
                              MatchedIndices(jdKeywords, normalisedResume)))
    IN  ApplyTo2(Loop, extractKeywords(jd), normaliseWithPhrases(resume))

(***************************************************************************)
(* runLegacyATS as a call that returns or throws: new RegExp throws a      *)
(* SyntaxError for a source that is no pattern.                            *)
(***************************************************************************)
\* whether new RegExp(`(?<![a-z0-9])${source}(?![a-z0-9])`, "i") accepts a
\* source made of backslashes and of the characters a keyword can hold:
\* a backslash needs a character after it, and the quantifier "+" needs an
\* atom before it that is neither the lookbehind nor already quantified
RegExpCompiles(source) ==
    LET n == Len(source)
        \* ok[i]: what is left from position i on is accepted, the item
        \* before it being "none" (nothing to repeat) or "atom"
        ok[i \in 1..(n + 1), before \in { "none", "atom" }] ==
            IF i > n THEN TRUE
            ELSE IF CharAt(source, i) = "\\"
                 THEN i < n /\ ok[i + 2, "atom"]
            ELSE IF CharAt(source, i) = "+"
                 THEN before = "atom" /\ ok[i + 1, "none"]
            ELSE ok[i + 1, "atom"]
    IN  ok[1, "none"]

Returned(value) == [kind |-> "returned", value |-> value]

Threw(error) == [kind |-> "threw", error |-> error]

\* the call of runLegacyATS(resume, jd): the loop throws at the first
\* keyword whose pattern new RegExp rejects, and returns otherwise
LegacyATSOutcome(resume, jd) ==
    LET Run(jdKeywords) ==
            IF \A i \in 1..Len(jdKeywords) :
                   RegExpCompiles(EscapeRegex(jdKeywords[i]))
            THEN Returned(runLegacyATS(resume, jd))
            ELSE Threw("SyntaxError")
    IN  ApplyTo(Run, extractKeywords(jd))

(***************************************************************************)
(* The simple word-boundary variant (legacy.ts).                           *)
(***************************************************************************)
SIMPLE_STOP_WORDS == {
    "the", "a", "an", "and", "or", "but", "in", "on", "at", "to", "for",
    "of", "with", "by", "from", "is", "are", "was", "were", "be", "been",
    "have", "has", "had", "do", "does", "did", "will", "would", "could",
    "should", "may", "might", "must", "shall", "can", "need", "our", "your",
    "their", "its", "we", "you", "they", "it", "he", "she", "this", "that",
    "as", "not", "also", "such", "any", "all", "more", "than", "into" }

SimpleMinLength == 2

\* (w) => w.length > 2 && !STOP_WORDS.has(w)
KeepSimpleToken(w) == Len(w) > SimpleMinLength /\ w \notin SIMPLE_STOP_WORDS

extractKeywordsSimple(t) ==
    LET words == SplitWhitespace(Clean(toLowerCase(t)))
    IN  Dedupe(SelectIndices(words,
                   { i \in 1..Len(words) : KeepSimpleToken(words[i]) }))

EscapeSimpleChar(c) == IF c \in {".", "+", "#"} THEN "\\" \o c ELSE c

\* keyword.replace(/[.+#]/g, "\\$&")
EscapeSimple(keyword) == MapChars(EscapeSimpleChar, keyword)

\* \w
IsWordChar(c) == c \in LowerLetters \cup CharsOf(UpperCase) \cup Digits \cup {"_"}

\* \b between positions i - 1 and i of s: a word character on exactly one side
WordBoundaryAt(s, i) ==
    LET before == i > 1 /\ IsWordChar(CharAt(s, i - 1))
        after  == i <= Len(s) /\ IsWordChar(CharAt(s, i))
    IN  before # after

AtomMatches(atom, c) ==
    IF atom.kind = "any" THEN c \notin LineTerminators ELSE c = atom.ch

\* new RegExp(`\\b${escaped}\\b`).test(s)
WordBoundaryPatternTest(escaped, s) ==
    LET atoms == PatternAtoms(escaped)
        m == Len(atoms)
    IN  \E i \in 1..(Len(s) - m + 1) :
            /\ WordBoundaryAt(s, i)
            /\ \A j \in 1..m : AtomMatches(atoms[j], CharAt(s, i + j - 1))
            /\ WordBoundaryAt(s, i + m)

\* the indices of the keywords the for-loop of the simple variant pushes
\* to matched
SimpleMatchedIndices(jdKeywords, resumeLower) ==
    { i \in 1..Len(jdKeywords) :
        WordBoundaryPatternTest(EscapeSimple(jdKeywords[i]), resumeLower) }

\* Math.round(matchRate * 100 * 10) / 10
SimpleScoreOf(matchRate) ==
    IF matchRate.num = 0 THEN Quotient(0, 10)
    ELSE IF matchRate.num = matchRate.den THEN Quotient(1000, 10)
    ELSE Quotient(MathRound(DoubleTimes(DoubleTimes(
                      DoubleOfFraction(matchRate.num, matchRate.den), 100), 10)), 10)

\* the object the simple variant returns
SimpleATSResult(jdKeywords, lists) ==
    [ score           |-> SimpleScoreOf(MatchRate(Len(lists.matched), Len(jdKeywords))),
      matchedKeywords |-> lists.matched,
      missingKeywords |-> lists.missing,
      totalJDKeywords |-> Len(jdKeywords),
      matchRate       |-> MatchRate(Len(lists.matched), Len(jdKeywords)) ]

runLegacyATSSimple(resume, jd) ==
    LET Loop(jdKeywords, resumeLower) ==
            ApplyTo2(SimpleATSResult, jdKeywords,
                     PushLoop(jdKeywords,
                              SimpleMatchedIndices(jdKeywords, resumeLower)))
    IN  ApplyTo2(Loop, extractKeywordsSimple(jd), toLowerCase(resume))

(***************************************************************************)
(* Inputs.                                                                 *)
(***************************************************************************)
\* texts the text functions are first called with
SeedTexts == {
    "",
    "Graduated in 2021 with 5 years experience",
    "We are a team that will use AI",
    "Experience with machine learning and REST API design",
    "In 1989, 1990, 2040 & 2041: 007 (123456)",
    "Java, SQL and java",
    "system design",
    "node" }

\* what is appended to a seed text
Fragments == { " ", ".", "-", "x", "js", " patterns", "back end", "\n" }

TenKeywords == "python java sql docker react aws linux git rust kotlin"

SixteenKeywords == TenKeywords \o " go ruby php swift scala perl"

JobSeeds == {
    "", "the a of", "java", "Java developer", TenKeywords, SixteenKeywords,
    "C++ C# Node.js machine learning" }

ResumeSeeds == {
    "", "javascript", "I love javascript and Java EE", "python",
    "python java sql docker react aws",
    "c++, c#; Node JS; Machine Learning" }

\* what is typed after a seed resume or job description
TypedFragments == { "x", ".", "+", "Java", " rust" }

NoKeywords == << >>

NoResult == [ score |-> NaN, matchedKeywords |-> << >>, missingKeywords |-> << >>,
              totalJDKeywords |-> 0, matchRate |-> NaN ]

NotRated == [ matchRate |-> NaN, score |-> NaN ]

\* normaliseWithPhrases is not running
LoopIdle ==
    /\ lowered = ""
    /\ pass = 0

\* the evaluate page has no score yet
ScoresIdle ==
    /\ legacyScore = NaN
    /\ semanticScore = NaN
    /\ aiScore = NaN
    /\ compositeScore = NaN

\* no engine has been called
NoReply == [kind |-> "none"]

NoOutcome == [kind |-> "none"]

CallsIdle ==
    /\ serviceReply = NoReply
    /\ outcome = NoOutcome
    /\ callLog = << >>

\* no route has got a request
NoResponse == [status |-> 0]

RoutesIdle ==
    /\ route = "none"
    /\ envKey = FALSE
    /\ requestBody = [kind |-> "none"]
    /\ response = NoResponse
    /\ invocations = << >>

\* the evaluate page as mounted: useState initial values, nothing sent
NoUser == [id |-> ""]

AllEngines(status) == [legacy |-> status, semantic |-> status, ai |-> status]

\* null
Null == [kind |-> "null"]

PageIdle ==
    /\ pageState = "idle"
    /\ engineStatus = AllEngines("pending")
    /\ pageResult = Null
    /\ errorMsg = Null
    /\ user = NoUser
    /\ runs = << >>
    /\ requests = << >>
    /\ inserted = << >>

\* no request has reached the interceptor
NoAnswer == [kind |-> "none"]

ProxyIdle ==
    /\ deployed = "none"
    /\ session = FALSE
    /\ location = ""
    /\ proxyResponse = NoAnswer
    /\ redirects = 0

ParseIdle ==
    /\ upload = [kind |-> "none"]
    /\ parseResponse = NoResponse

\* the upload form as mounted: useState initial values
ZoneIdle ==
    /\ selectedFile = Null
    /\ jdInput = ""
    /\ dropState = "idle"
    /\ fileError = Null
    /\ jdError = Null
    /\ lastSubmit = [kind |-> "none"]

RestIdle ==
    /\ ProxyIdle
    /\ ParseIdle
    /\ ZoneIdle

OthersIdle ==
    /\ LoopIdle
    /\ ScoresIdle
    /\ CallsIdle
    /\ RoutesIdle
    /\ PageIdle
    /\ RestIdle

(***************************************************************************)
(* Direct calls of the text functions: a text is put together, then one of *)
(* the functions is called on it.                                          *)
(***************************************************************************)
TextInit ==
    /\ text \in SeedTexts
    /\ called = "none"
    /\ normalised = ""
    /\ keywords = NoKeywords
    /\ resumeText = ""
    /\ jobDescription = ""
    /\ typed = 0
    /\ engine = "none"
    /\ result = NoResult
    /\ jdLength = 0
    /\ matchedLength = 0
    /\ rated = NotRated
    /\ OthersIdle

AppendFragment(f) ==
    /\ called = "none"
    /\ typed < MaxAppend
    /\ text' = text \o f
    /\ typed' = typed + 1
    /\ UNCHANGED <<called, normalised, keywords, resumeText, jobDescription,
                   engine, result,
                   jdLength, matchedLength, rated, otherVars>>

CallNormalise ==
    /\ called = "none"
    /\ called' = "normaliseWithPhrases"
    /\ normalised' = normaliseWithPhrases(text)
    /\ UNCHANGED <<text, keywords, resumeText, jobDescription, typed,
                   engine, result,
                   jdLength, matchedLength, rated, otherVars>>

CallExtractKeywords ==
    /\ called = "none"
    /\ called' = "extractKeywords"
    /\ keywords' = extractKeywords(text)
    /\ UNCHANGED <<text, normalised, resumeText, jobDescription, typed,
                   engine, result,
                   jdLength, matchedLength, rated, otherVars>>

TextNext ==
    \/ \E f \in Fragments : AppendFragment(f)
    \/ CallNormalise
    \/ CallExtractKeywords

TextSpec == TextInit /\ [][TextNext]_vars

(***************************************************************************)
(* One evaluation by the keyword engine: the two texts are put together,   *)
(* then one of the two variants of runLegacyATS is run on them.            *)
(***************************************************************************)
Init ==
    /\ text = ""
    /\ called = "none"
    /\ normalised = ""
    /\ keywords = NoKeywords
    /\ resumeText \in ResumeSeeds
    /\ jobDescription \in JobSeeds
    /\ typed = 0
    /\ engine = "none"
    /\ result = NoResult
    /\ jdLength = 0
    /\ matchedLength = 0
    /\ rated = NotRated
    /\ OthersIdle

TypeResume(f) ==
    /\ engine = "none"
    /\ typed < MaxTyped
    /\ resumeText' = resumeText \o f
    /\ typed' = typed + 1
    /\ UNCHANGED <<text, called, normalised, keywords, jobDescription,
                   engine, result,
                   jdLength, matchedLength, rated, otherVars>>

TypeJobDescription(f) ==
    /\ engine = "none"
    /\ typed < MaxTyped
    /\ jobDescription' = jobDescription \o f
    /\ typed' = typed + 1
    /\ UNCHANGED <<text, called, normalised, keywords, resumeText,
                   engine, result,
                   jdLength, matchedLength, rated, otherVars>>

RunLegacyATS ==
    /\ engine = "none"
    /\ engine' = "phrases"
    /\ result' = runLegacyATS(resumeText, jobDescription)
    /\ UNCHANGED <<text, called, normalised, keywords, resumeText,
                   jobDescription, typed,
                   jdLength, matchedLength, rated, otherVars>>

RunLegacyATSSimple ==
    /\ engine = "none"
    /\ engine' = "simple"
    /\ result' = runLegacyATSSimple(resumeText, jobDescription)
    /\ UNCHANGED <<text, called, normalised, keywords, resumeText,
                   jobDescription, typed,
                   jdLength, matchedLength, rated, otherVars>>

Next ==
    \/ \E f \in TypedFragments : TypeResume(f)
    \/ \E f \in TypedFragments : TypeJobDescription(f)
    \/ RunLegacyATS
    \/ RunLegacyATSSimple

Spec == Init /\ [][Next]_vars


(***************************************************************************)
(* The last statements of runLegacyATS on their own: the loop has ended    *)
(* with matched.length keywords matched out of jdKeywords.length, and the  *)
(* matchRate and the score are computed from the two lengths.              *)
(***************************************************************************)
ScoreInit ==
    /\ text = ""
    /\ called = "none"
    /\ normalised = ""
    /\ keywords = NoKeywords
    /\ resumeText = ""
    /\ jobDescription = ""
    /\ typed = 0
    /\ engine = "none"
    /\ result = NoResult
    /\ jdLength \in 0..MaxKeywords
    /\ matchedLength = 0
    /\ rated = NotRated
    /\ OthersIdle

ComputeScore(m) ==
    /\ rated = NotRated
    /\ matchedLength' = m
    /\ rated' = [ matchRate |-> MatchRate(m, jdLength),
                  score     |-> ScoreOf(MatchRate(m, jdLength)) ]
    /\ UNCHANGED <<text, called, normalised, keywords, resumeText,
                   jobDescription, typed, engine, result, jdLength, otherVars>>

ScoreNext == \E m \in 0..jdLength : ComputeScore(m)

ScoreSpec == ScoreInit /\ [][ScoreNext]_vars

(***************************************************************************)
(* normaliseWithPhrases statement by statement: lower is set to the        *)
(* lower-cased text, the for-loop takes the phrases of the table one at a  *)
(* time, and lower is returned when the table is exhausted.                *)
(***************************************************************************)
\* the table iterated from its last phrase to its first
PhraseOfPassReversed(i) == COMPOUND_PHRASES[Len(COMPOUND_PHRASES) + 1 - i]

\* for (const phrase of COMPOUND_PHRASES): the phrase of the i-th iteration
PhraseOfPass(i) == COMPOUND_PHRASES[i]

\* the texts normalised statement by statement
LoopTexts == {
    "", "System design patterns", "Back end and back end",
    "REST API design patterns", "machine learning, Machine Learning",
    "event driven micro services", "Node js and node.js",
    "test driven development", "full stack front end back end" }

LoopInit ==
    /\ text \in LoopTexts
    /\ called = "none"
    /\ normalised = ""
    /\ keywords = NoKeywords
    /\ resumeText = ""
    /\ jobDescription = ""
    /\ typed = 0
    /\ engine = "none"
    /\ result = NoResult
    /\ jdLength = 0
    /\ matchedLength = 0
    /\ rated = NotRated
    /\ LoopIdle
    /\ RoutesIdle
    /\ PageIdle
    /\ RestIdle
    /\ ScoresIdle
    /\ CallsIdle

\* let lower = text.toLowerCase()
StartNormalise ==
    /\ called = "none"
    /\ called' = "normalising"
    /\ lowered' = toLowerCase(text)
    /\ pass' = 0
    /\ UNCHANGED <<text, normalised, keywords, resumeText, jobDescription,
                   typed, engine, result, jdLength, matchedLength, rated,
                   outsideLoop>>

\* one iteration of the for-loop
NormalisePass ==
    /\ called = "normalising"
    /\ pass < Len(COMPOUND_PHRASES)
    /\ lowered' = ReplaceAll(PhraseOfPass(pass + 1),
                             JoinPhrase(PhraseOfPass(pass + 1)), lowered)
    /\ pass' = pass + 1
    /\ UNCHANGED <<coreVars, outsideLoop>>

\* return lower
ReturnNormalised ==
    /\ called = "normalising"
    /\ pass = Len(COMPOUND_PHRASES)
    /\ called' = "normaliseWithPhrases"
    /\ normalised' = lowered
    /\ UNCHANGED <<text, keywords, resumeText, jobDescription,
                   typed, engine, result, jdLength, matchedLength, rated,
                   otherVars>>

LoopNext ==
    \/ StartNormalise
    \/ NormalisePass
    \/ ReturnNormalised

LoopSpec == LoopInit /\ [][LoopNext]_vars

(***************************************************************************)
(* Double arithmetic for the composite score: products and sums of two     *)
(* doubles.  Zero is [mant |-> <<0>>, exp |-> 0].                          *)
(***************************************************************************)
Zeros(n) == [i \in 1..n |-> 0]

DoubleZero == [mant |-> << 0 >>, exp |-> 0]

\* limbs without its leading zero limbs (one limb is always kept)
StripLimbs(limbs) ==
    LET nonzero == { i \in 1..Len(limbs) : limbs[i] # 0 }
    IN  IF nonzero = {} THEN << 0 >>
        ELSE SubSeq(limbs, Min(nonzero), Len(limbs))

\* x + y for two integers written in limbs
BigAdd(x, y) ==
    LET n == Max({ Len(x), Len(y) })
        xs == Zeros(n - Len(x)) \o x
        ys == Zeros(n - Len(y)) \o y
        carry[i \in 1..n] ==
            LET Out(in) == (xs[i + 1] + ys[i + 1] + in) \div LimbBase
            IN  IF i = n THEN 0 ELSE ApplyTo(Out, carry[i + 1])
        body == [i \in 1..n |-> (xs[i] + ys[i] + carry[i]) % LimbBase]
        top == (xs[1] + ys[1] + carry[1]) \div LimbBase
    IN  IF top = 0 THEN body ELSE << top >> \o body

\* x * y for two integers written in limbs: one limb of y at a time
BigTimes(x, y) ==
    LET acc[j \in 0..Len(y)] ==
            LET Step(sofar) == BigAdd(sofar \o << 0 >>, TimesSmall(x, y[j]))
            IN  IF j = 0 THEN << 0 >> ELSE ApplyTo(Step, acc[j - 1])
    IN  StripLimbs(acc[Len(y)])

\* limbs * 2^bits
ShiftLeft(limbs, bits) ==
    TimesSmall(limbs, 2 ^ (bits % LimbBits)) \o Zeros(bits \div LimbBits)

\* the integer written by limbs rounded to 53 significant bits, to the
\* nearest and to the even one on a tie; the bits rounded away stay in
\* place as zeros
RoundLimbs(limbs) ==
    LET n == Len(limbs)
        extra == LimbsBitLength(limbs) - MantissaBits
        q == extra \div LimbBits
        r == extra % LimbBits
        sticky == \E e \in 0..(extra - 2) : BitOf(limbs, e) = 1
        up == /\ BitOf(limbs, extra - 1) = 1
              /\ (sticky \/ BitOf(limbs, extra) = 1)
        kept == [i \in 1..(n - q) |->
                    IF i = n - q THEN limbs[i] - (limbs[i] % (2 ^ r))
                    ELSE limbs[i]]
    IN  IF extra <= 0 THEN limbs
        ELSE (IF up THEN AddSmall(kept, 2 ^ r) ELSE kept) \o Zeros(q)

\* the double nearest to a / b for integers a >= 0 and 0 < b < 2^19 with
\* a / b < 2^20: long division as in DoubleOfFraction, with the exponent
\* found for a quotient of any size
DoubleOfRatio(a, b) ==
    IF a = 0 THEN DoubleZero
    ELSE LET gap == BitLength(b) - BitLength(a)
             \* the least k (negative when a >= 2b) with a * 2^k >= b
             lead == IF gap >= 0
                     THEN (IF a * (2 ^ gap) >= b THEN gap ELSE gap + 1)
                     ELSE (IF a >= b * (2 ^ (-gap)) THEN gap ELSE gap + 1)
             exp == lead + MantissaBits - 1
             limbCount == exp \div LimbBits
             head == a * (2 ^ (exp % LimbBits))
             rem[j \in 0..limbCount] ==
                 LET Step(left) == (left * LimbBase) % b
                 IN  IF j = 0 THEN head % b ELSE ApplyTo(Step, rem[j - 1])
             digits == [j \in 1..limbCount |-> (rem[j - 1] * LimbBase) \div b]
             quotient == << head \div b >> \o digits
             last == rem[limbCount]
             up == 2 * last > b \/ (2 * last = b /\ BitOf(quotient, 0) = 1)
         IN  [mant |-> IF up THEN AddSmall(quotient, 1) ELSE quotient,
              exp  |-> exp]

\* x * y in double arithmetic
DoubleProduct(x, y) ==
    IF x = DoubleZero \/ y = DoubleZero THEN DoubleZero
    ELSE LET Rounded(product) == [mant |-> RoundLimbs(product),
                                  exp  |-> x.exp + y.exp]
         IN  ApplyTo(Rounded, BigTimes(x.mant, y.mant))

\* x + y in double arithmetic
DoubleSum(x, y) ==
    IF x = DoubleZero THEN y
    ELSE IF y = DoubleZero THEN x
    ELSE LET exp == Max({ x.exp, y.exp })
             Rounded(sum) == [mant |-> RoundLimbs(sum), exp |-> exp]
         IN  ApplyTo(Rounded, BigAdd(ShiftLeft(x.mant, exp - x.exp),
                                     ShiftLeft(y.mant, exp - y.exp)))

\* Math.round(x) for a double 0 <= x < 2^18
MathRoundOrZero(x) == IF x = DoubleZero THEN 0 ELSE MathRound(x)

(***************************************************************************)
(* The composite score of the evaluate page, computed from the scores of   *)
(* the three engines.  A score is a fraction; the doubles are those of     *)
(* JavaScript.                                                             *)
(***************************************************************************)
\* the double of a score kept as a fraction
DoubleOfScore(score) == DoubleOfRatio(score.num, score.den)

\* Math.round((l * wl + s * ws + a * wa) * 10) / 10, each weight a fraction
WeightedComposite(l, s, a, wl, ws, wa) ==
    LET Tenth(sum) ==
            Quotient(MathRoundOrZero(DoubleProduct(sum, DoubleOfRatio(10, 1))), 10)
    IN  ApplyTo(Tenth,
                DoubleSum(DoubleSum(DoubleProduct(DoubleOfScore(l), DoubleOfScore(wl)),
                                    DoubleProduct(DoubleOfScore(s), DoubleOfScore(ws))),
                          DoubleProduct(DoubleOfScore(a), DoubleOfScore(wa))))

\* the weights of the legacy and of the AI recruiter score exchanged
CompositeWeightsSwapped(legacy, semantic, ai) ==
    WeightedComposite(legacy, semantic, ai,
                      Quotient(4, 10), Quotient(3, 10), Quotient(3, 10))

\* Math.round((legacy.score * 0.3 + semantic.score * 0.3
\*             + aiRecruiter.Score * 0.4) * 10) / 10
CompositeOf(legacy, semantic, ai) ==
    WeightedComposite(legacy, semantic, ai,
                      Quotient(3, 10), Quotient(3, 10), Quotient(4, 10))

\* the scores the composite is computed from: legacy.score and
\* semantic.score are whole numbers of tenths, aiRecruiter.Score is whole
LegacyScores == { Quotient(35 * k, 10) : k \in 0..28 } \cup { Quotient(100, 1) }

SemanticScores == { Quotient(45 * k, 10) : k \in 0..22 } \cup { Quotient(100, 1) }

AIScores == { Quotient(0, 1), Quotient(1, 1), Quotient(100, 1) }

CompositeInit ==
    /\ text = ""
    /\ called = "none"
    /\ normalised = ""
    /\ keywords = NoKeywords
    /\ resumeText = ""
    /\ jobDescription = ""
    /\ typed = 0
    /\ engine = "none"
    /\ result = NoResult
    /\ jdLength = 0
    /\ matchedLength = 0
    /\ rated = NotRated
    /\ LoopIdle
    /\ RoutesIdle
    /\ PageIdle
    /\ RestIdle
    /\ CallsIdle
    /\ legacyScore \in LegacyScores
    /\ semanticScore \in SemanticScores
    /\ aiScore \in AIScores
    /\ compositeScore = NaN

\* const compositeScore = Math.round((...) * 10) / 10
ComputeComposite ==
    /\ compositeScore = NaN
    /\ compositeScore' = CompositeOf(legacyScore, semanticScore, aiScore)
    /\ UNCHANGED <<outsideComposite, legacyScore, semanticScore, aiScore>>

CompositeNext == ComputeComposite

CompositeSpec == CompositeInit /\ [][CompositeNext]_vars

(***************************************************************************)
(* The keyword engine called on text that was not written to be parsed:    *)
(* punctuation, characters that are special in patterns, letters outside   *)
(* a-z.                                                                    *)
(***************************************************************************)
HostileTexts == {
    "", "?!*", "(((  [[[ {{", "C++ & c+ +x ++ .net .. a.b",
    "\\d+ $^| \\", "++ -- ## ..", "node.js+ (c#)", "résumé naïve ¿qué?",
    "+-+- #.# a+b+ 2021+", "Machine/learning * REST|API" }

HostileInit ==
    /\ text = ""
    /\ called = "none"
    /\ normalised = ""
    /\ keywords = NoKeywords
    /\ resumeText \in HostileTexts
    /\ jobDescription \in HostileTexts
    /\ typed = 0
    /\ engine = "none"
    /\ result = NoResult
    /\ jdLength = 0
    /\ matchedLength = 0
    /\ rated = NotRated
    /\ LoopIdle
    /\ RoutesIdle
    /\ PageIdle
    /\ RestIdle
    /\ ScoresIdle
    /\ CallsIdle

\* runLegacyATS(resumeText, jobDescription) is called once
CallLegacyATS ==
    /\ outcome = NoOutcome
    /\ outcome' = LegacyATSOutcome(resumeText, jobDescription)
    /\ UNCHANGED <<outsideCall, resumeText, jobDescription, serviceReply,
                   callLog>>

HostileNext == CallLegacyATS

HostileSpec == HostileInit /\ [][HostileNext]_vars

(***************************************************************************)
(* JSON values, as JSON.parse yields them and as a template literal or     *)
(* JSON.stringify writes them.  The items of an array are scalars.         *)
(***************************************************************************)
JUndefined == [type |-> "undefined", num |-> 0, den |-> 1, str |-> "", items |-> << >>]

JNull == [type |-> "null", num |-> 0, den |-> 1, str |-> "", items |-> << >>]

JNumber(n, d) == [type |-> "number", num |-> n, den |-> d, str |-> "", items |-> << >>]

JString(t) == [type |-> "string", num |-> 0, den |-> 1, str |-> t, items |-> << >>]

JArray(elements) == [type |-> "array", num |-> 0, den |-> 1, str |-> "", items |-> elements]

\* the decimal digits of an integer n >= 0
RECURSIVE IntText(_)
IntText(n) ==
    IF n < 10 THEN CharAt("0123456789", n + 1)
    ELSE IntText(n \div 10) \o CharAt("0123456789", (n % 10) + 1)

\* String(x) for a number x = n / d with d among 1, 2, 5 and 10
NumberText(n, d) ==
    LET tenths == ((IF n < 0 THEN -n ELSE n) * 10) \div d
        whole == IntText(tenths \div 10)
    IN  (IF n < 0 THEN "-" ELSE "")
            \o (IF tenths % 10 = 0 THEN whole
                ELSE whole \o "." \o IntText(tenths % 10))

\* the texts of the elements of a sequence joined by sep
JoinTexts(texts, sep) ==
    LET f[i \in 0..Len(texts)] ==
            IF i = 0 THEN ""
            ELSE IF i = 1 THEN texts[1]
            ELSE f[i - 1] \o sep \o texts[i]
    IN  f[Len(texts)]

\* `${v}` for a scalar v
ScalarText(v) ==
    IF v.type = "number" THEN NumberText(v.num, v.den)
    ELSE IF v.type = "string" THEN v.str
    ELSE v.type

\* `${v}`: an array is written as its elements joined by commas (null and
\* undefined elements as nothing)
TextOf(v) ==
    IF v.type = "array"
    THEN JoinTexts([i \in 1..Len(v.items) |->
                       IF v.items[i].type \in { "null", "undefined" } THEN ""
                       ELSE ScalarText(v.items[i])], ",")
    ELSE ScalarText(v)

\* JSON.stringify(v) for a scalar v
ScalarJSON(v) ==
    IF v.type = "string" THEN "\"" \o v.str \o "\"" ELSE ScalarText(v)

\* JSON.stringify(v)
JSONText(v) ==
    IF v.type = "array"
    THEN "[" \o JoinTexts([i \in 1..Len(v.items) |-> ScalarJSON(v.items[i])], ",")
             \o "]"
    ELSE ScalarJSON(v)

\* s.indexOf(c) and s.lastIndexOf(c), counted from 1; 0 when c is not in s
IndexOf(s, c) ==
    LET found == { i \in 1..Len(s) : CharAt(s, i) = c }
    IN  IF found = {} THEN 0 ELSE Min(found)

LastIndexOf(s, c) ==
    LET found == { i \in 1..Len(s) : CharAt(s, i) = c }
    IN  IF found = {} THEN 0 ELSE Max(found)

\* s.includes(part)
Includes(s, part) ==
    \E i \in 1..(Len(s) - Len(part) + 1) :
        SubSeq(s, i, i + Len(part) - 1) = part

(***************************************************************************)
(* The AI recruiter engine (ai-recruiter.ts).  What the service answers is *)
(* either an error, or a text together with what JSON.parse makes of the   *)
(* part of it between the first "{" and the last "}".                      *)
(***************************************************************************)
validVerdicts == << "Strong Match", "Moderate Match", "Weak Match", "Not a Fit" >>

MinFeedbackLength == 10

MinScore == 0

MaxScore == 100

\* the keys of an AIRecruiterResult in the order the schema gives them
AIKeys == << "Score", "Verdict", "Feedback", "Pros", "Cons" >>

\* the text of the object: its keys that are defined, in schema order
ObjectText(obj) ==
    LET present == SelectIndices(AIKeys, { i \in 1..Len(AIKeys) :
                                            obj[AIKeys[i]] # JUndefined })
    IN  "{" \o JoinTexts([i \in 1..Len(present) |->
                            "\"" \o present[i] \o "\":" \o JSONText(obj[present[i]])],
                         ",")
            \o "}"

\* the value JSON.parse did not yield: it threw
NotJSON == [type |-> "SyntaxError"]

ServiceError(message) == [kind |-> "error", message |-> message]

TextReply(raw, parsed) == [kind |-> "text", raw |-> raw, parsed |-> parsed]

\* validateAIResult(obj) for an object r: the message of the Error it
\* throws, or "" when it returns true
ValidationError(r) ==
    IF \/ r.Score.type # "number"
       \/ r.Score.num < MinScore * r.Score.den
       \/ r.Score.num > MaxScore * r.Score.den
    THEN "Invalid Score: " \o TextOf(r.Score)
    ELSE IF ~(/\ r.Verdict.type = "string"
              /\ \E i \in 1..Len(validVerdicts) : validVerdicts[i] = r.Verdict.str)
    THEN "Invalid Verdict: " \o TextOf(r.Verdict)
    ELSE IF ~(r.Feedback.type = "string" /\ Len(r.Feedback.str) >= MinFeedbackLength)
    THEN "Invalid Feedback"
    ELSE IF ~(r.Pros.type = "array" /\ Len(r.Pros.items) # 0)
    THEN "Pros must be non-empty array."
    ELSE IF ~(r.Cons.type = "array" /\ Len(r.Cons.items) # 0)
    THEN "Cons must be non-empty array."
    ELSE ""

\* extractJSON(raw): the text from the first "{" to the last "}" (what
\* trim and the removal of the code fences take away lies outside it), or
\* "none" when it throws
extractJSON(raw) ==
    IF IndexOf(raw, "{") = 0 \/ LastIndexOf(raw, "}") = 0
    THEN [kind |-> "threw", json |-> ""]
    ELSE [kind |-> "returned",
          json |-> SubSeq(raw, IndexOf(raw, "{"), LastIndexOf(raw, "}"))]

RawSnippetLength == 200

\* runAIRecruiter once the service has answered with reply
AIRecruiterOutcome(reply) ==
    IF reply.kind = "error" THEN Threw(reply.message)
    ELSE IF extractJSON(reply.raw).kind = "threw"
         THEN Threw("No JSON object found in Gemini response.")
    ELSE IF reply.parsed = NotJSON
         THEN Threw("Failed to parse Gemini JSON: Unexpected token. Raw: "
                      \o SubSeq(extractJSON(reply.raw).json, 1,
                                Min({ RawSnippetLength,
                                      Len(extractJSON(reply.raw).json) })))
    ELSE IF ValidationError(reply.parsed) # ""
         THEN Threw(ValidationError(reply.parsed))
    ELSE Returned(reply.parsed)

\* what the service may answer: objects with each field right or wrong in
\* one way or another, texts that hold no object or do not parse, errors
AIObjects ==
    [ Score    : { JNumber(85, 1), JNumber(101, 2), JNumber(429, 1),
                   JNumber(-1, 1), JString("85"), JUndefined },
      Verdict  : { JString("Strong Match"), JString("Moderate Match"),
                   JString("Moderate"), JString("strong match"), JUndefined },
      Feedback : { JString("Solid backend experience."), JString("Good."),
                   JNumber(7, 1) },
      Pros     : { JArray(<< JString("Go"), JString("SQL") >>),
                   JArray(<< JNumber(1, 1) >>), JArray(<< >>), JString("Go") },
      Cons     : { JArray(<< JString("No cloud") >>), JArray(<< >>), JUndefined } ]

AIServiceErrors == {
    ServiceError("[429 Too Many Requests] Resource has been exhausted"),
    ServiceError("[503 Service Unavailable] The model is overloaded"),
    ServiceError("fetch failed") }

AIReplies ==
    { TextReply("Evaluation:\n" \o ObjectText(obj) \o "\n", obj) : obj \in AIObjects }
    \cup { TextReply("I cannot evaluate this resume.", NotJSON),
           TextReply("{Score: 85, Verdict: Moderate Match}", NotJSON),
           TextReply("} {", NotJSON) }
    \cup AIServiceErrors

AIInit ==
    /\ text = ""
    /\ called = "none"
    /\ normalised = ""
    /\ keywords = NoKeywords
    /\ resumeText = ""
    /\ jobDescription = ""
    /\ typed = 0
    /\ engine = "none"
    /\ result = NoResult
    /\ jdLength = 0
    /\ matchedLength = 0
    /\ rated = NotRated
    /\ LoopIdle
    /\ RoutesIdle
    /\ PageIdle
    /\ RestIdle
    /\ ScoresIdle
    /\ serviceReply \in AIReplies
    /\ outcome = NoOutcome
    /\ callLog = << >>

\* runAIRecruiter is called once and the service answers serviceReply
CallAIRecruiter ==
    /\ outcome = NoOutcome
    /\ outcome' = AIRecruiterOutcome(serviceReply)
    /\ UNCHANGED <<outsideCall, resumeText, jobDescription, serviceReply,
                   callLog>>

AINext == CallAIRecruiter

AISpec == AIInit /\ [][AINext]_vars

(***************************************************************************)
(* The semantic engine (part_000, lines 95-155).  The service answers with *)
(* an error or with a response whose embeddings are an array of vectors or *)
(* something that is no array; a vector is a sequence of integers.  The    *)
(* score, the rounded similarity and the interpretation are functions      *)
(* (square root, power) of the three sums of cosineSimilarity, which are   *)
(* what the model keeps of a result.                                       *)
(***************************************************************************)
\* the sum of f[i] over 1..n
SumOver(f, n) ==
    LET sum[i \in 0..n] == IF i = 0 THEN 0 ELSE sum[i - 1] + f[i]
    IN  sum[n]

\* the length check left out
DimensionNeverChecked(a, b) == FALSE

\* a.length !== b.length
DimensionMismatch(a, b) == Len(a) # Len(b)

\* the sums the loop of cosineSimilarity leaves; an element of b that
\* does not exist is undefined and makes dot and normB NaN
CosineSums(a, b) ==
    IF Len(b) < Len(a)
    THEN [dot |-> NaN, normA |-> SumOver([i \in 1..Len(a) |-> a[i] * a[i]], Len(a)),
          normB |-> NaN]
    ELSE [dot   |-> SumOver([i \in 1..Len(a) |-> a[i] * b[i]], Len(a)),
          normA |-> SumOver([i \in 1..Len(a) |-> a[i] * a[i]], Len(a)),
          normB |-> SumOver([i \in 1..Len(a) |-> b[i] * b[i]], Len(a))]

\* cosineSimilarity(a, b)
cosineSimilarity(a, b) ==
    IF DimensionMismatch(a, b)
    THEN Threw("Vector dimension mismatch: " \o IntText(Len(a)) \o " vs "
                 \o IntText(Len(b)))
    ELSE Returned(CosineSums(a, b))

MinEmbeddings == 2

EmbedReply(isArray, embeddings) ==
    [kind |-> "embeddings", isArray |-> isArray, embeddings |-> embeddings]

\* runSemanticATS once the service has answered with reply
SemanticOutcome(reply) ==
    IF reply.kind = "error" THEN Threw(reply.message)
    ELSE IF ~reply.isArray \/ Len(reply.embeddings) < MinEmbeddings
         THEN Threw("Cohere returned fewer embeddings than expected.")
    ELSE cosineSimilarity(reply.embeddings[1], reply.embeddings[2])

SemanticServiceErrors == {
    ServiceError("Status code: 429 Body: too many requests"),
    ServiceError("Status code: 500 Body: internal server error") }

Vectors == { << >>, << 1, 0 >>, << 0, 1 >>, << 3, 4 >>, << 1, 2, 2 >>, << 1 >> }

\* what the embedding service may answer
SemanticReplies ==
    { EmbedReply(TRUE, << a, b >>) : a \in Vectors, b \in { << 1, 0 >>, << 3, 4 >>, << 2, 1, 2 >> } }
    \cup { EmbedReply(TRUE, << >>), EmbedReply(TRUE, << << 1, 0 >> >>),
           EmbedReply(TRUE, << << 1, 0 >>, << 3, 4 >>, << 1 >> >>),
           EmbedReply(FALSE, << >>) }
    \cup SemanticServiceErrors

\* calls of runSemanticATS made one after another
MaxCalls == 2

SemanticInit ==
    /\ text = ""
    /\ called = "none"
    /\ normalised = ""
    /\ keywords = NoKeywords
    /\ resumeText = ""
    /\ jobDescription = ""
    /\ typed = 0
    /\ engine = "none"
    /\ result = NoResult
    /\ jdLength = 0
    /\ matchedLength = 0
    /\ rated = NotRated
    /\ LoopIdle
    /\ RoutesIdle
    /\ PageIdle
    /\ RestIdle
    /\ ScoresIdle
    /\ CallsIdle

\* runSemanticATS is called and the service answers reply
CallSemanticATS(reply) ==
    /\ Len(callLog) < MaxCalls
    /\ serviceReply' = reply
    /\ outcome' = SemanticOutcome(reply)
    /\ callLog' = Append(callLog, [reply |-> reply, outcome |-> SemanticOutcome(reply)])
    /\ UNCHANGED <<outsideCall, resumeText, jobDescription>>

SemanticNext == \E reply \in SemanticReplies : CallSemanticATS(reply)

SemanticSpec == SemanticInit /\ [][SemanticNext]_vars

(***************************************************************************)
(* The API routes of the three engines (api/engines/legacy/route.ts, and   *)
(* the routes of the semantic engine and of the AI recruiter).  A request  *)
(* body is JSON with the two fields, each of any JSON type or missing, or  *)
(* text that request.json() rejects.                                       *)
(***************************************************************************)
MinTextLength == 50

Response(status, body) == [status |-> status, body |-> body]

\* { error } with a status, { error, detail } with a status
ErrorBody(error) == [error |-> error]

FailureBody(error, detail) == [error |-> error, detail |-> detail]

\* !value
Falsy(value) ==
    \/ value.type \in { "undefined", "null" }
    \/ value.type = "string" /\ value.str = ""
    \/ value.type = "number" /\ value.num = 0

\* the length is taken of the text as it came
UntrimmedTooShort(value) == Len(value.str) < MinTextLength

\* value.trim().length < 50 for a string value
TooShort(value) == Len(Trim(value.str)) < MinTextLength

MalformedBody == [kind |-> "malformed"]

JSONBody(resume, jd) ==
    [kind |-> "json", resumeText |-> resume, jobDescription |-> jd]

\* a request that passed the checks: the arguments of the engine
Invoke(resume, jd) ==
    [kind |-> "invoke", resumeText |-> resume, jobDescription |-> jd]

\* from request.json() to the second check: the response returned, the
\* error thrown, or the arguments the engine is called with
RouteEntry(body) ==
    IF body.kind = "malformed" THEN Threw("Unexpected end of JSON input")
    ELSE IF Falsy(body.resumeText)
    THEN Returned(Response(400, ErrorBody("resumeText must be at least 50 characters.")))
    ELSE IF body.resumeText.type # "string"
    THEN Threw("resumeText.trim is not a function")
    ELSE IF TooShort(body.resumeText)
    THEN Returned(Response(400, ErrorBody("resumeText must be at least 50 characters.")))
    ELSE IF Falsy(body.jobDescription)
    THEN Returned(Response(400, ErrorBody("jobDescription must be at least 50 characters.")))
    ELSE IF body.jobDescription.type # "string"
    THEN Threw("jobDescription.trim is not a function")
    ELSE IF TooShort(body.jobDescription)
    THEN Returned(Response(400, ErrorBody("jobDescription must be at least 50 characters.")))
    ELSE Invoke(Trim(body.resumeText.str), Trim(body.jobDescription.str))

\* the catch block of the legacy route
LegacyFailure(msg) == Response(500, FailureBody("Legacy engine failed.", msg))

\* the catch block of the semantic route
SemanticFailure(msg) ==
    LET isRate == (\E lowerMsg \in { toLowerCase(msg) } :
                         Includes(lowerMsg, "rate")) \/ Includes(msg, "429")
    IN  Response(IF isRate THEN 429 ELSE 500,
                 FailureBody(IF isRate THEN "Cohere rate limit reached."
                                       ELSE "Semantic engine failed.", msg))

\* the catch block of the AI recruiter route
AIRecruiterFailure(msg) ==
    LET isRate == \/ (\E lowerMsg \in { toLowerCase(msg) } :
                         Includes(lowerMsg, "rate"))
                  \/ Includes(msg, "429")
                  \/ Includes(msg, "exhausted")
    IN  Response(IF isRate THEN 429 ELSE 500,
                 FailureBody(IF isRate THEN "Gemini rate limit reached."
                                       ELSE "AI Recruiter failed.", msg))

\* how the call of the engine ends that the route makes on entry, if any
LegacyCall(entry) ==
    IF entry.kind = "invoke"
    THEN LegacyATSOutcome(entry.resumeText, entry.jobDescription)
    ELSE NoOutcome

SemanticCall(key, entry, reply) ==
    IF key /\ entry.kind = "invoke" THEN SemanticOutcome(reply) ELSE NoOutcome

AIRecruiterCall(key, entry, reply) ==
    IF key /\ entry.kind = "invoke" THEN AIRecruiterOutcome(reply) ELSE NoOutcome

\* POST of api/engines/legacy
LegacyResponse(entry, ended) ==
    IF entry.kind = "returned" THEN entry.value
    ELSE IF entry.kind = "threw" THEN LegacyFailure(entry.error)
    ELSE IF ended.kind = "threw" THEN LegacyFailure(ended.error)
    ELSE Response(200, ended.value)

\* POST of api/engines/semantic
SemanticResponse(key, entry, ended) ==
    IF ~key
    THEN Response(503, ErrorBody("Semantic engine not configured. Missing COHERE_API_KEY."))
    ELSE IF entry.kind = "returned" THEN entry.value
    ELSE IF entry.kind = "threw" THEN SemanticFailure(entry.error)
    ELSE IF ended.kind = "threw" THEN SemanticFailure(ended.error)
    ELSE Response(200, ended.value)

\* POST of api/engines/ai-recruiter
AIRecruiterResponse(key, entry, ended) ==
    IF ~key
    THEN Response(503, ErrorBody("AI Recruiter not configured. Missing GEMINI_API_KEY."))
    ELSE IF entry.kind = "returned" THEN entry.value
    ELSE IF entry.kind = "threw" THEN AIRecruiterFailure(entry.error)
    ELSE IF ended.kind = "threw" THEN AIRecruiterFailure(ended.error)
    ELSE Response(200, ended.value)

\* the calls of the engine a request has led to
InvocationsOf(name, ended, entry) ==
    IF ended = NoOutcome THEN << >>
    ELSE << [engine |-> name, resumeText |-> entry.resumeText,
             jobDescription |-> entry.jobDescription] >>

\* texts of 49 and of 50 characters, bare and inside white space
Text49 == "Backend engineer: Go, SQL, Docker and Kubernetes."

Text50 == "Backend engineer: Go, SQL, Docker, and Kubernetes."

BodyFields == {
    JUndefined, JNull, JNumber(0, 1), JNumber(7, 1), JString(""),
    JString(Text49), JString("  " \o Text49 \o " \n\n"),
    JString(Text50), JString("\n " \o Text50 \o "  ") }

\* what the model service may answer to the route's call: objects whose
\* Score, Verdict or Cons may be wrong, texts that are no JSON, errors
RouteAIObjects ==
    [ Score    : { JNumber(85, 1), JNumber(429, 1), JNumber(-1, 1),
                   JUndefined },
      Verdict  : { JString("Strong Match"), JString("Moderate Match"),
                   JString("Moderate"), JString("strong match") },
      Feedback : { JString("Solid backend experience.") },
      Pros     : { JArray(<< JString("Go"), JString("SQL") >>) },
      Cons     : { JArray(<< JString("No cloud") >>), JArray(<< >>) } ]

RouteAIReplies ==
    { TextReply("Evaluation:\n" \o ObjectText(obj) \o "\n", obj) :
          obj \in RouteAIObjects }
    \cup { TextReply("I cannot evaluate this resume.", NotJSON),
           TextReply("{Score: 85, Verdict: Moderate Match}", NotJSON),
           TextReply("} {", NotJSON) }
    \cup AIServiceErrors

RequestBodies ==
    { MalformedBody }
    \cup { JSONBody(resume, jd) : resume \in BodyFields, jd \in BodyFields }

RouteInit ==
    /\ text = ""
    /\ called = "none"
    /\ normalised = ""
    /\ keywords = NoKeywords
    /\ resumeText = ""
    /\ jobDescription = ""
    /\ typed = 0
    /\ engine = "none"
    /\ result = NoResult
    /\ jdLength = 0
    /\ matchedLength = 0
    /\ rated = NotRated
    /\ LoopIdle
    /\ ScoresIdle
    /\ CallsIdle
    /\ PageIdle
    /\ RestIdle
    /\ route = "none"
    /\ envKey \in BOOLEAN
    /\ requestBody = [kind |-> "none"]
    /\ response = NoResponse
    /\ invocations = << >>

outsideRoute == <<coreVars, loopVars, scoreVars, callLog, pageVars, envKey,
                  restVars>>

\* the service answers only a request that reaches it
RepliesTo(entry, replies) ==
    IF envKey /\ entry.kind = "invoke" THEN replies ELSE { NoReply }

\* the legacy route gets a request with this body
PostLegacy(body) ==
    /\ route = "none"
    /\ route' = "legacy"
    /\ requestBody' = body
    /\ serviceReply' = NoReply
    /\ \E entry \in { RouteEntry(body) } :
           /\ outcome' = LegacyCall(entry)
           /\ invocations' = InvocationsOf("legacy", outcome', entry)
           /\ response' = LegacyResponse(entry, outcome')
    /\ UNCHANGED outsideRoute

\* the semantic route gets a request with this body; the embedding
\* service answers if the engine calls it
PostSemantic(body) ==
    /\ route = "none"
    /\ route' = "semantic"
    /\ requestBody' = body
    /\ \E entry \in { RouteEntry(body) } :
         \E reply \in RepliesTo(entry, SemanticReplies) :
           /\ serviceReply' = reply
           /\ outcome' = SemanticCall(envKey, entry, reply)
           /\ invocations' = InvocationsOf("semantic", outcome', entry)
           /\ response' = SemanticResponse(envKey, entry, outcome')
    /\ UNCHANGED outsideRoute

\* the AI recruiter route gets a request with this body; the model
\* service answers if the engine calls it
PostAIRecruiter(body) ==
    /\ route = "none"
    /\ route' = "ai-recruiter"
    /\ requestBody' = body
    /\ \E entry \in { RouteEntry(body) } :
         \E reply \in RepliesTo(entry, RouteAIReplies) :
           /\ serviceReply' = reply
           /\ outcome' = AIRecruiterCall(envKey, entry, reply)
           /\ invocations' = InvocationsOf("ai-recruiter", outcome', entry)
           /\ response' = AIRecruiterResponse(envKey, entry, outcome')
    /\ UNCHANGED outsideRoute

RouteNext ==
    \/ \E body \in RequestBodies : PostLegacy(body)
    \/ \E body \in RequestBodies : PostSemantic(body)
    \/ \E body \in RequestBodies : PostAIRecruiter(body)

RouteSpec == RouteInit /\ [][RouteNext]_vars

(***************************************************************************)
(* The evaluate page (types/evaluation.ts, lines 195-474).  Every call of  *)
(* handleSubmit is a run: it stops at each await and goes on when what it  *)
(* waits for has answered.  The handlers of one answer (the then and catch *)
(* callbacks, Promise.all, the rest of handleSubmit up to its next await)  *)
(* run as one step, as microtasks do.                                      *)
(***************************************************************************)
\* calls of handleSubmit
MaxRuns == 2

Engines == << "legacy", "semantic", "ai" >>

EndpointOf == [legacy   |-> "/api/engines/legacy",
               semantic |-> "/api/engines/semantic",
               ai       |-> "/api/engines/ai-recruiter"]

\* what fetch resolves to: res.ok, res.status and the value of res.json()
HttpOk(data) == [ok |-> TRUE, status |-> 200, data |-> data]

HttpError(status, error) ==
    [ok |-> FALSE, status |-> status, data |-> [error |-> error]]

Absent == [kind |-> "undefined"]

ErrorText(message) == [kind |-> "text", text |-> message]

\* err.error ?? fallback
ErrorOr(error, fallback) == IF error = Absent THEN fallback ELSE error.text

\* the error of the route replaced by a text of the page
ParsePDFOutcomeGeneric(reply) ==
    IF reply.ok THEN Returned(reply.data)
    ELSE Threw("An unexpected error occurred.")

\* parsePDF(file) once the route has answered
ParsePDFOutcome(reply) ==
    IF reply.ok THEN Returned(reply.data)
    ELSE Threw(ErrorOr(reply.data.error,
                       "PDF parse failed with status " \o IntText(reply.status)))

\* the error of the route replaced by a text of the page
CallEngineOutcomeGeneric(endpoint, reply) ==
    IF reply.ok THEN Returned(reply.data)
    ELSE Threw("An unexpected error occurred.")

\* callEngine(endpoint, ...) once the route has answered
CallEngineOutcome(endpoint, reply) ==
    IF reply.ok THEN Returned(reply.data)
    ELSE Threw(ErrorOr(reply.data.error,
                       endpoint \o " returned " \o IntText(reply.status)))

\* the request of parsePDF and the request of callEngine
ParseRequest(n, file) ==
    [run |-> n, endpoint |-> "/api/parse-pdf", body |-> [file |-> file]]

EngineRequest(n, name, resume, jd) ==
    [run |-> n, endpoint |-> EndpointOf[name],
     body |-> [resumeText |-> resume, jobDescription |-> jd]]

\* the legacy request alone
OnlyLegacyRequest(n, resume, jd) == << EngineRequest(n, "legacy", resume, jd) >>

\* the requests the three calls of callEngine send, in the order of the
\* array given to Promise.all
EngineRequests(n, resume, jd) ==
    [i \in 1..Len(Engines) |-> EngineRequest(n, Engines[i], resume, jd)]

\* no call has answered
NoneSettled == AllEngines(NoOutcome)

\* all three calls have returned
AllReturned(settled) ==
    \A i \in 1..Len(Engines) : settled[Engines[i]].kind = "returned"

\* a run of handleSubmit at its first await
NewRun(file, jd) ==
    [pc |-> "parsePDF", file |-> file, jobDescription |-> jd,
     resumeText |-> "", resumeId |-> Absent, issued |-> FALSE,
     settled |-> NoneSettled, compositeScore |-> NaN]

\* the object with the legacy and the semantic result exchanged
EvaluationSwapped(id, resumeId, jd, legacy, semantic, aiRecruiter, composite) ==
    [kind |-> "evaluation", id |-> id, resumeId |-> resumeId,
     jobDescription |-> jd, legacy |-> semantic, semantic |-> legacy,
     aiRecruiter |-> aiRecruiter, compositeScore |-> composite]

\* the object handleSubmit builds as evaluation
Evaluation(id, resumeId, jd, legacy, semantic, aiRecruiter, composite) ==
    [kind |-> "evaluation", id |-> id, resumeId |-> resumeId,
     jobDescription |-> jd, legacy |-> legacy, semantic |-> semantic,
     aiRecruiter |-> aiRecruiter, compositeScore |-> composite]

\* the record with the composite score added to it
EvaluationInsertWithComposite(userId, resumeId, jd, legacy, semantic, aiRecruiter) ==
    [user_id          |-> userId,
     resume_id        |-> resumeId,
     job_description  |-> jd,
     legacy_score     |-> legacy.score,
     legacy_matched   |-> legacy.matchedKeywords,
     legacy_missing   |-> legacy.missingKeywords,
     legacy_details   |-> legacy,
     semantic_score   |-> semantic.score,
     semantic_details |-> semantic,
     ai_score         |-> aiRecruiter.Score,
     ai_verdict       |-> aiRecruiter.Verdict,
     ai_feedback      |-> aiRecruiter.Feedback,
     ai_pros          |-> aiRecruiter.Pros,
     ai_cons          |-> aiRecruiter.Cons,
     ai_details       |-> aiRecruiter,
     composite_score  |-> CompositeOf(legacy.score, semantic.score, aiRecruiter.Score)]

\* the record given to insert of the table "evaluations"
EvaluationInsert(userId, resumeId, jd, legacy, semantic, aiRecruiter) ==
    [user_id          |-> userId,
     resume_id        |-> resumeId,
     job_description  |-> jd,
     legacy_score     |-> legacy.score,
     legacy_matched   |-> legacy.matchedKeywords,
     legacy_missing   |-> legacy.missingKeywords,
     legacy_details   |-> legacy,
     semantic_score   |-> semantic.score,
     semantic_details |-> semantic,
     ai_score         |-> aiRecruiter.Score,
     ai_verdict       |-> aiRecruiter.Verdict,
     ai_feedback      |-> aiRecruiter.Feedback,
     ai_pros          |-> aiRecruiter.Pros,
     ai_cons          |-> aiRecruiter.Cons,
     ai_details       |-> aiRecruiter]

\* what the user submits and what the routes and the store may answer
Files == { "cv.pdf" }

JobDescriptions == { "Backend engineer, Go and SQL" }

ParseReplies == {
    HttpOk([text |-> "Go developer with SQL"]),
    HttpError(422, ErrorText("Could not extract readable text. The PDF may be image-based or encrypted.")) }

Users == { NoUser, [id |-> "user-1"] }

RowIds == { ErrorText("row-1") }

LegacyReplies == {
    HttpOk([score |-> Quotient(35, 10), matchRate |-> Quotient(35, 1000),
            matchedKeywords |-> << "go" >>, missingKeywords |-> << "sql" >>]),
    HttpError(500, ErrorText("Legacy engine failed.")) }

SemanticRouteReplies == {
    HttpOk([score |-> Quotient(63, 1), rawSimilarity |-> Quotient(6789, 10000),
            interpretation |-> "Moderate semantic alignment"]),
    HttpError(429, ErrorText("Cohere rate limit reached.")) }

AIRouteReplies == {
    HttpOk([Score |-> Quotient(1, 1), Verdict |-> "Not a Fit",
            Feedback |-> "No relevant experience.",
            Pros |-> << "Clear layout" >>, Cons |-> << "No Go" >>]),
    HttpError(502, Absent) }

RepliesOf == [legacy   |-> LegacyReplies,
              semantic |-> SemanticRouteReplies,
              ai       |-> AIRouteReplies]

PageInit ==
    /\ text = ""
    /\ called = "none"
    /\ normalised = ""
    /\ keywords = NoKeywords
    /\ resumeText = ""
    /\ jobDescription = ""
    /\ typed = 0
    /\ engine = "none"
    /\ result = NoResult
    /\ jdLength = 0
    /\ matchedLength = 0
    /\ rated = NotRated
    /\ LoopIdle
    /\ ScoresIdle
    /\ CallsIdle
    /\ RoutesIdle
    /\ RestIdle
    /\ pageState = "idle"
    /\ engineStatus = AllEngines("pending")
    /\ pageResult = Null
    /\ errorMsg = Null
    /\ user \in Users
    /\ runs = << >>
    /\ requests = << >>
    /\ inserted = << >>

outsidePage == <<coreVars, loopVars, scoreVars, callVars, routeVars, user,
                 restVars>>

\* the catch block of handleSubmit, in run n
Caught(n, message) ==
    /\ runs' = [runs EXCEPT ![n].pc = "failed"]
    /\ errorMsg' = ErrorText(message)
    /\ pageState' = "error"

\* step 3 of handleSubmit in run n: the three requests are sent
StartEngines(n, resumeId) ==
    /\ pageState' = "running"
    /\ engineStatus' = AllEngines("running")
    /\ requests' = requests \o EngineRequests(n, runs[n].resumeText,
                                              runs[n].jobDescription)
    /\ runs' = [runs EXCEPT ![n].pc = "engines", ![n].issued = TRUE,
                            ![n].resumeId = resumeId]

\* the user submits the form: handleSubmit up to the request of parsePDF
Submit(file, jd) ==
    /\ pageState = "idle"
    /\ Len(runs) < MaxRuns
    /\ pageState' = "parsing"
    /\ errorMsg' = Null
    /\ pageResult' = Null
    /\ engineStatus' = AllEngines("pending")
    /\ runs' = Append(runs, NewRun(file, jd))
    /\ requests' = Append(requests, ParseRequest(Len(runs) + 1, file))
    /\ UNCHANGED <<outsidePage, inserted>>

\* the parse-pdf route answers run n
ParsePDFResponds(n, reply) ==
    /\ n \in 1..Len(runs)
    /\ runs[n].pc = "parsePDF"
    /\ IF ParsePDFOutcome(reply).kind = "threw"
       THEN /\ Caught(n, ParsePDFOutcome(reply).error)
            /\ UNCHANGED <<engineStatus, pageResult>>
       ELSE /\ runs' = [runs EXCEPT ![n].pc = "getUser",
                                    ![n].resumeText = reply.data.text]
            /\ UNCHANGED <<pageState, engineStatus, pageResult, errorMsg>>
    /\ UNCHANGED <<outsidePage, requests, inserted>>

\* supabase.auth.getUser() answers run n
GetUserResponds(n) ==
    /\ n \in 1..Len(runs)
    /\ runs[n].pc = "getUser"
    /\ IF user # NoUser
       THEN /\ runs' = [runs EXCEPT ![n].pc = "insertResume"]
            /\ UNCHANGED <<pageState, engineStatus, requests>>
       ELSE StartEngines(n, Absent)
    /\ UNCHANGED <<outsidePage, pageResult, errorMsg, inserted>>

\* the insert into "resumes" answers run n with the id of the row, if any
ResumeInserted(n, id) ==
    /\ n \in 1..Len(runs)
    /\ runs[n].pc = "insertResume"
    /\ StartEngines(n, id)
    /\ UNCHANGED <<outsidePage, pageResult, errorMsg, inserted>>

\* the route of engine name answers the request of run n
EngineResponds(n, name, reply) ==
    /\ n \in 1..Len(runs)
    /\ runs[n].issued
    /\ runs[n].settled[name] = NoOutcome
    /\ LET ended   == CallEngineOutcome(EndpointOf[name], reply)
           settled == [runs[n].settled EXCEPT ![name] = ended]
           legacy      == settled.legacy.value
           semantic    == settled.semantic.value
           aiRecruiter == settled.ai.value
       IN  /\ engineStatus' = [engineStatus EXCEPT ![name] =
                                 IF ended.kind = "returned" THEN "done" ELSE "error"]
           /\ IF runs[n].pc # "engines"
              THEN /\ runs' = [runs EXCEPT ![n].settled = settled]
                   /\ UNCHANGED <<pageState, pageResult, errorMsg, inserted>>
              ELSE IF ended.kind = "threw"
              THEN /\ runs' = [runs EXCEPT ![n].settled = settled,
                                           ![n].pc = "failed"]
                   /\ errorMsg' = ErrorText(ended.error)
                   /\ pageState' = "error"
                   /\ UNCHANGED <<pageResult, inserted>>
              ELSE IF ~AllReturned(settled)
              THEN /\ runs' = [runs EXCEPT ![n].settled = settled]
                   /\ UNCHANGED <<pageState, pageResult, errorMsg, inserted>>
              ELSE \E composite \in { CompositeOf(legacy.score, semantic.score,
                                                  aiRecruiter.Score) } :
                     IF user # NoUser
                     THEN /\ runs' = [runs EXCEPT ![n].settled = settled,
                                                  ![n].compositeScore = composite,
                                                  ![n].pc = "insertEvaluation"]
                          /\ inserted' = Append(inserted,
                                 [run |-> n,
                                  row |-> EvaluationInsert(user.id, runs[n].resumeId,
                                              runs[n].jobDescription,
                                              legacy, semantic, aiRecruiter)])
                          /\ UNCHANGED <<pageState, pageResult, errorMsg>>
                     ELSE /\ runs' = [runs EXCEPT ![n].settled = settled,
                                                  ![n].compositeScore = composite,
                                                  ![n].pc = "done"]
                          /\ pageResult' = Evaluation(Absent, runs[n].resumeId,
                                               runs[n].jobDescription, legacy,
                                               semantic, aiRecruiter, composite)
                          /\ pageState' = "done"
                          /\ UNCHANGED <<errorMsg, inserted>>
    /\ UNCHANGED <<outsidePage, requests>>

\* the insert into "evaluations" answers run n with the id of the row
EvaluationInserted(n, id) ==
    /\ n \in 1..Len(runs)
    /\ runs[n].pc = "insertEvaluation"
    /\ runs' = [runs EXCEPT ![n].pc = "done"]
    /\ pageResult' = Evaluation(id, runs[n].resumeId, runs[n].jobDescription,
                                runs[n].settled.legacy.value,
                                runs[n].settled.semantic.value,
                                runs[n].settled.ai.value,
                                runs[n].compositeScore)
    /\ pageState' = "done"
    /\ UNCHANGED <<outsidePage, engineStatus, errorMsg, requests, inserted>>

\* the user clicks "Try again"
TryAgain ==
    /\ pageState = "error"
    /\ pageState' = "idle"
    /\ UNCHANGED <<outsidePage, engineStatus, pageResult, errorMsg, runs,
                   requests, inserted>>

PageNext ==
    \/ \E file \in Files, jd \in JobDescriptions : Submit(file, jd)
    \/ \E n \in 1..MaxRuns, reply \in ParseReplies : ParsePDFResponds(n, reply)
    \/ \E n \in 1..MaxRuns : GetUserResponds(n)
    \/ \E n \in 1..MaxRuns, id \in RowIds : ResumeInserted(n, id)
    \/ \E n \in 1..MaxRuns, i \in 1..Len(Engines) :
           \E reply \in RepliesOf[Engines[i]] :
               EngineResponds(n, Engines[i], reply)
    \/ \E n \in 1..MaxRuns, id \in RowIds : EvaluationInserted(n, id)
    \/ TryAgain

PageSpec == PageInit /\ [][PageNext]_vars

(***************************************************************************)
(* Properties of runLegacyATS.                                             *)
(***************************************************************************)
Range(seq) == { seq[i] : i \in 1..Len(seq) }

\* k occurs in s at position p, letter for letter
OccursAt(k, s, p) == p >= 1 /\ p + Len(k) - 1 <= Len(s) /\ SubSeq(s, p, p + Len(k) - 1) = k

\* s holds an occurrence of k with no character of [a-z0-9] right before it
\* and none right after it
HasDelimitedOccurrence(k, s) ==
    \E p \in 1..Len(s) :
        /\ OccursAt(k, s, p)
        /\ (p = 1 \/ CharAt(s, p - 1) \notin AlnumLower)
        /\ (p + Len(k) > Len(s) \/ CharAt(s, p + Len(k)) \notin AlnumLower)

\* C1: after a run of the phrase-table variant, a job-description keyword is
\* in matchedKeywords exactly when the normalised resume holds a literal
\* occurrence of it delimited by characters outside [a-z0-9] (or by the ends
\* of the text), and is in missingKeywords otherwise; so "java" is missing
\* for the resume "javascript" and matched for "I love javascript and Java EE"
C1_BoundaryAwareMatch ==
    engine = "phrases" =>
        \A resume \in { normaliseWithPhrases(resumeText) } :
        \A jd \in { extractKeywords(jobDescription) } :
            /\ \A k \in Range(jd) :
                  /\ k \in Range(result.matchedKeywords)
                        <=> HasDelimitedOccurrence(k, resume)
                  /\ k \in Range(result.missingKeywords)
                        <=> ~HasDelimitedOccurrence(k, resume)
            /\ ("java" \in Range(jd) /\ resumeText = "javascript")
                  => "java" \in Range(result.missingKeywords)
            /\ ("java" \in Range(jd) /\ resumeText = "I love javascript and Java EE")
                  => "java" \in Range(result.matchedKeywords)

C1_Witness ==
    /\ engine = "phrases"
    /\ resumeText = "I love javascript and Java EE"
    /\ jobDescription = "Java developer"
    /\ result.matchedKeywords = << "java" >>
    /\ result.missingKeywords = << "developer" >>

\* sub is seq with some of its elements left out: each element of sub is
\* found in seq after the place where the one before it was found
IsSubsequence(sub, seq) ==
    LET place[i \in 0..Len(sub)] ==
            LET After(prev) ==
                    LET later == { p \in (prev + 1)..Len(seq) : seq[p] = sub[i] }
                    IN  IF prev = -1 \/ later = {} THEN -1 ELSE Min(later)
            IN  IF i = 0 THEN 0 ELSE ApplyTo(After, place[i - 1])
    IN  place[Len(sub)] # -1

\* the keywords the variant that ran extracted from the job description
JobKeywords ==
    IF engine = "phrases" THEN extractKeywords(jobDescription)
    ELSE extractKeywordsSimple(jobDescription)

\* C2: after a run of either variant, matchedKeywords and missingKeywords
\* partition the keywords of the job description: they share no keyword,
\* every keyword is in one of them, each keeps the keywords' relative order,
\* and their lengths add up to totalJDKeywords
C2_Partition ==
    engine # "none" =>
        \A jd \in { JobKeywords } :
            /\ Range(result.matchedKeywords) \cap Range(result.missingKeywords) = {}
            /\ Range(result.matchedKeywords) \cup Range(result.missingKeywords) = Range(jd)
            /\ IsSubsequence(result.matchedKeywords, jd)
            /\ IsSubsequence(result.missingKeywords, jd)
            /\ Len(result.matchedKeywords) + Len(result.missingKeywords)
                  = result.totalJDKeywords
            /\ result.totalJDKeywords = Len(jd)

C2_Witness ==
    /\ engine # "none"
    /\ Len(result.matchedKeywords) >= 2
    /\ Len(result.missingKeywords) >= 2

\* score * 10 for a score that is a whole number of tenths
Tenths(score) == (10 * score.num) \div score.den

\* the statement of C3 as claimed: matchRate is matched.length over
\* jdKeywords.length and score is matchRate * 100 rounded to one decimal
\* place with ties rounded up
C3_AsClaimed ==
    (rated # NotRated /\ jdLength > 0) =>
        /\ rated.matchRate.den > 0
        /\ rated.matchRate.num * jdLength = matchedLength * rated.matchRate.den
        /\ rated.score.den > 0
        /\ (10 * rated.score.num) % rated.score.den = 0
        /\ -jdLength < 2 * (Tenths(rated.score) * jdLength - 1000 * matchedLength)
        /\ 2 * (Tenths(rated.score) * jdLength - 1000 * matchedLength) <= jdLength
        /\ 0 <= rated.score.num
        /\ rated.score.num <= 100 * rated.score.den
        /\ (jdLength = 10 /\ matchedLength = 6) =>
              /\ rated.matchRate = [num |-> 3, den |-> 5]
              /\ rated.score = [num |-> 60, den |-> 1]

\* C3: with at least one keyword, matchRate is matched.length over
\* jdKeywords.length, score is a whole number of tenths at most 0.05 away
\* from matchRate * 100 (a nearest one; a tie goes either way) and lies in
\* [0, 100]; 6 keywords matched out of 10 give matchRate 0.6 and score 60.0
C3_RateAndScore ==
    (rated # NotRated /\ jdLength > 0) =>
        /\ rated.matchRate.den > 0
        /\ rated.matchRate.num * jdLength = matchedLength * rated.matchRate.den
        /\ rated.score.den > 0
        /\ (10 * rated.score.num) % rated.score.den = 0
        /\ -jdLength <= 2 * (Tenths(rated.score) * jdLength - 1000 * matchedLength)
        /\ 2 * (Tenths(rated.score) * jdLength - 1000 * matchedLength) <= jdLength
        /\ 0 <= rated.score.num
        /\ rated.score.num <= 100 * rated.score.den
        /\ (jdLength = 10 /\ matchedLength = 6) =>
              /\ rated.matchRate = [num |-> 3, den |-> 5]
              /\ rated.score = [num |-> 60, den |-> 1]

C3_Witness ==
    /\ rated # NotRated
    /\ jdLength = 10
    /\ matchedLength = 6
    /\ rated.matchRate = [num |-> 3, den |-> 5]
    /\ rated.score = [num |-> 60, den |-> 1]

\* C4: when the job description yields no keyword, the run returns score 0,
\* matchRate 0, totalJDKeywords 0 and two empty lists, whatever the resume
C4_EmptyJobDescription ==
    (engine = "phrases" /\ extractKeywords(jobDescription) = << >>) =>
        /\ result.score = [num |-> 0, den |-> 1]
        /\ result.matchRate = [num |-> 0, den |-> 1]
        /\ result.totalJDKeywords = 0
        /\ result.matchedKeywords = << >>
        /\ result.missingKeywords = << >>

C4_Witness ==
    /\ engine = "phrases"
    /\ jobDescription = "the a of"
    /\ resumeText = "I love javascript and Java EE"
    /\ result.score = [num |-> 0, den |-> 1]

(***************************************************************************)
(* Properties of extractKeywords and normaliseWithPhrases.                 *)
(***************************************************************************)
\* the whitespace-delimited tokens of s: its maximal runs of characters
\* that are not whitespace
TokensOf(s) ==
    LET solid(i) == i >= 1 /\ i <= Len(s) /\ CharAt(s, i) \notin WhiteSpace
        starts == { a \in 1..Len(s) : solid(a) /\ ~solid(a - 1) }
    IN  { SubSeq(s, a, Min({ b \in a..Len(s) : ~solid(b + 1) })) : a \in starts }

\* C5: extractKeywords keeps a whitespace-delimited token of the cleaned,
\* normalised text exactly when it has at least 2 characters, is no stop
\* word, and is not a string of digits that is shorter than 4 or whose value
\* is outside 1990..2040; so "Graduated in 2021 with 5 years experience"
\* yields 2021 and not 5, and "We are a team that will use AI" yields only ai
C5_TokenFilter ==
    called = "extractKeywords" =>
        /\ Range(keywords) =
              { t \in TokensOf(Clean(normaliseWithPhrases(text))) :
                  /\ Len(t) >= 2
                  /\ t \notin STOP_WORDS
                  /\ ~(IsNumeric(t) /\ (Len(t) < 4 \/ ToNumber(t) \notin 1990..2040)) }
        /\ text = "Graduated in 2021 with 5 years experience"
              => ("2021" \in Range(keywords) /\ "5" \notin Range(keywords))
        /\ text = "We are a team that will use AI" => keywords = << "ai" >>

C5_Witness ==
    /\ called = "extractKeywords"
    /\ text = "Graduated in 2021 with 5 years experience"
    /\ keywords = << "graduated", "2021" >>

FirstIndex(x, seq) == Min({ i \in 1..Len(seq) : seq[i] = x })

\* C6: the keywords returned hold no keyword twice and stand in the order
\* in which they first occur among the filtered tokens
C6_FirstOccurrenceOrder ==
    called = "extractKeywords" =>
        \A tokens \in { FilteredTokens(text) } :
            /\ Range(keywords) = Range(tokens)
            /\ \A i, j \in 1..Len(keywords) :
                  i < j => /\ keywords[i] # keywords[j]
                           /\ FirstIndex(keywords[i], tokens)
                                 < FirstIndex(keywords[j], tokens)

C6_Witness ==
    /\ called = "extractKeywords"
    /\ text = "Java, SQL and java"
    /\ FilteredTokens(text) = << "java", "sql", "java" >>
    /\ keywords = << "java", "sql" >>

\* C7: every keyword returned is a non-empty string of characters of
\* a-z, 0-9, "-", "+", "#" and "."
C7_KeywordAlphabet ==
    called = "extractKeywords" =>
        \A k \in Range(keywords) :
            /\ Len(k) >= 1
            /\ CharsOf(k) \subseteq CharsOf("abcdefghijklmnopqrstuvwxyz0123456789-+#.")

C7_Witness ==
    /\ called = "extractKeywords"
    /\ text = "In 1989, 1990, 2040 & 2041: 007 (123456)"
    /\ keywords = << "1990", "2040" >>

\* the phrases of the table made of words separated by a space
SpacedPhrases == { ph \in Range(COMPOUND_PHRASES) : " " \in CharsOf(ph) }

\* ph with each of its spaces turned into a hyphen
Hyphenated(ph) ==
    LET Hyphen(c) == IF c = " " THEN "-" ELSE c
    IN  MapChars(Hyphen, ph)

\* the statement of C8 as claimed: whenever the lower-cased text holds a
\* spaced phrase of the table, the hyphen-joined phrase is a keyword
C8_AsClaimed ==
    called = "extractKeywords" =>
        \A lower \in { toLowerCase(text) } :
        \A ph \in SpacedPhrases :
            (\E p \in 1..Len(lower) : OccursAt(ph, lower, p))
                => Hyphenated(ph) \in Range(keywords)

\* the occurrence of ph at position p of lower touches no keyword character
IsDelimited(ph, lower, p) ==
    /\ p = 1 \/ CharAt(lower, p - 1) \notin KeywordChars
    /\ p + Len(ph) > Len(lower) \/ CharAt(lower, p + Len(ph)) \notin KeywordChars

\* the occurrence of ph at position p of lower shares a character with
\* another occurrence of a phrase of the table
Overlaps(ph, lower, p) ==
    \E other \in Range(COMPOUND_PHRASES) :
    \E q \in (p - Len(other) + 1)..(p + Len(ph) - 1) :
        /\ <<other, q>> # <<ph, p>>
        /\ OccursAt(other, lower, q)

\* C8: when the text holds a spaced phrase of the table (in any letter
\* case) that touches no keyword character on either side and overlaps no
\* other occurrence of a table phrase, the keywords are those of the text
\* before the occurrence, the hyphen-joined phrase, and those of the text
\* after it: the phrase is one keyword and its words are keywords only if
\* the rest of the text yields them
C8_PhraseCohesion ==
    called = "extractKeywords" =>
        \A lower \in { toLowerCase(text) } :
        \A ph \in SpacedPhrases :
        \A p \in 1..Len(lower) :
            (OccursAt(ph, lower, p) /\ IsDelimited(ph, lower, p)
                /\ ~Overlaps(ph, lower, p))
            => /\ Hyphenated(ph) \in Range(keywords)
               /\ keywords =
                     Dedupe(FilteredTokens(SubSeq(text, 1, p - 1))
                            \o << Hyphenated(ph) >>
                            \o FilteredTokens(SubSeq(text, p + Len(ph), Len(text))))

C8_Witness ==
    /\ called = "extractKeywords"
    /\ text = "Experience with machine learning and REST API design"
    /\ keywords = << "machine-learning", "rest-api", "design" >>

IsPhraseSpace(lower, i) ==
    \E ph \in Range(COMPOUND_PHRASES) :
    \E p \in (i - Len(ph) + 1)..i :
        /\ OccursAt(ph, lower, p)
        /\ CharAt(ph, i - p + 1) = " "

\* C10: the normalised text has the length of the text and differs from the
\* lower-cased text only where a space inside a literal occurrence of a
\* table phrase became a hyphen; a text whose lower-cased form holds no
\* table phrase is returned lower-cased and otherwise unchanged
C10_OnlyPhraseSpacesChange ==
    called = "normaliseWithPhrases" =>
        \A lower \in { toLowerCase(text) } :
            /\ Len(normalised) = Len(text)
            /\ \A i \in 1..Len(lower) :
                  CharAt(normalised, i) # CharAt(lower, i)
                      => /\ IsPhraseSpace(lower, i)
                         /\ CharAt(normalised, i) = "-"
            /\ (\A ph \in Range(COMPOUND_PHRASES) :
                   \A p \in 1..Len(lower) : ~OccursAt(ph, lower, p))
                  => normalised = lower

(***************************************************************************)
(* Properties of the loop of normaliseWithPhrases.                         *)
(***************************************************************************)
\* replace-all of the first k phrases of the table, one after another in
\* table order, starting from the lower-cased t
FoldedUpTo(t, k) ==
    LET f[i \in 0..k] ==
            LET PassOn(s) == ReplaceAll(COMPOUND_PHRASES[i],
                                        Hyphenated(COMPOUND_PHRASES[i]), s)
            IN  IF i = 0 THEN toLowerCase(t) ELSE ApplyTo(PassOn, f[i - 1])
    IN  f[k]

\* C11: the loop applies the phrases in table order, each pass replacing
\* every occurrence in the output of the pass before it: after k passes
\* lower is the left fold of replace-all over the first k phrases, no
\* spaced phrase among them is left in it, and what is returned is the fold
\* over the whole table; in "system design patterns" the earlier entry
\* "design patterns" is joined first and "system design" is then joined in
\* what remains
C11_TableOrderFold ==
    called \in { "normalising", "normaliseWithPhrases" } =>
        /\ lowered = FoldedUpTo(text, pass)
        /\ \A j \in 1..pass :
              COMPOUND_PHRASES[j] \in SpacedPhrases
                  => \A p \in 1..Len(lowered) :
                        ~OccursAt(COMPOUND_PHRASES[j], lowered, p)
        /\ called = "normaliseWithPhrases"
              => /\ pass = Len(COMPOUND_PHRASES)
                 /\ normalised = lowered
                 /\ normalised = normaliseWithPhrases(text)
        /\ text = "System design patterns"
              => /\ pass < 5 => lowered = "system design patterns"
                 /\ pass = 5 => lowered = "system design-patterns"
                 /\ pass >= 6 => lowered = "system-design-patterns"

C11_Witness ==
    /\ called = "normalising"
    /\ text = "System design patterns"
    /\ pass = 5
    /\ lowered = "system design-patterns"

(***************************************************************************)
(* Properties of the composite score.                                      *)
(***************************************************************************)
\* 100 times the weighted sum legacy * 0.3 + semantic * 0.3 + ai * 0.4 of
\* three scores, over the product of their denominators
WeightedSumNum == 
    30 * legacyScore.num * semanticScore.den * aiScore.den
    + 30 * semanticScore.num * legacyScore.den * aiScore.den
    + 40 * aiScore.num * legacyScore.den * semanticScore.den

WeightedSumDen == legacyScore.den * semanticScore.den * aiScore.den

\* the statement of C13 as claimed, a sum halfway between two tenths being
\* rounded as Math.round rounds (upwards): the composite is the weighted
\* sum rounded to one decimal place and is within [0, 100]
C13_AsClaimed ==
    compositeScore # NaN =>
        /\ (10 * compositeScore.num) % compositeScore.den = 0
        /\ -WeightedSumDen * 10
              < 2 * (Tenths(compositeScore) * WeightedSumDen * 10 - WeightedSumNum)
        /\ 2 * (Tenths(compositeScore) * WeightedSumDen * 10 - WeightedSumNum)
              <= WeightedSumDen * 10
        /\ 0 <= compositeScore.num
        /\ compositeScore.num <= 100 * compositeScore.den

\* C13: the composite is a whole number of tenths at most 0.05 away from
\* legacy * 0.3 + semantic * 0.3 + ai * 0.4 (a nearest tenth; a sum halfway
\* between two tenths goes to either) and is within [0, 100] for three
\* scores within [0, 100]
C13_CompositeScore ==
    compositeScore # NaN =>
        /\ (10 * compositeScore.num) % compositeScore.den = 0
        /\ -WeightedSumDen * 10
              <= 2 * (Tenths(compositeScore) * WeightedSumDen * 10 - WeightedSumNum)
        /\ 2 * (Tenths(compositeScore) * WeightedSumDen * 10 - WeightedSumNum)
              <= WeightedSumDen * 10
        /\ 0 <= compositeScore.num
        /\ compositeScore.num <= 100 * compositeScore.den

C13_Witness ==
    /\ legacyScore = Quotient(35, 10)
    /\ semanticScore = Quotient(630, 10)
    /\ aiScore = Quotient(1, 1)
    /\ compositeScore = Quotient(203, 10)

(***************************************************************************)
(* Properties of the keyword engine on arbitrary text.                     *)
(***************************************************************************)
\* C14: whatever the two texts are, the call of runLegacyATS returns: the
\* keywords of the job description hold none but the accepted characters
\* (any other character has ended a token), each keyword's escaped source
\* is accepted by new RegExp, and the result is the one of the engine with
\* its two lists and a score within [0, 100]
C14_NeverThrows ==
    outcome # NoOutcome =>
        /\ outcome.kind = "returned"
        /\ \A jdKeywords \in { extractKeywords(jobDescription) } :
              /\ \A i \in 1..Len(jdKeywords) :
                    /\ CharsOf(jdKeywords[i]) \subseteq KeywordChars
                    /\ RegExpCompiles(EscapeRegex(jdKeywords[i]))
              /\ outcome.value.totalJDKeywords = Len(jdKeywords)
              /\ Len(outcome.value.matchedKeywords)
                    + Len(outcome.value.missingKeywords) = Len(jdKeywords)
        /\ outcome.value.score.den > 0
        /\ 0 <= outcome.value.score.num
        /\ outcome.value.score.num <= 100 * outcome.value.score.den

C14_Witness ==
    /\ outcome.kind = "returned"
    /\ resumeText = "C++ & c+ +x ++ .net .. a.b"
    /\ jobDescription = "+-+- #.# a+b+ 2021+"
    /\ outcome.value.matchedKeywords = << >>
    /\ outcome.value.missingKeywords = << "+-+-", "#.#", "a+b+", "2021+" >>

(***************************************************************************)
(* Properties of the AI recruiter engine.                                  *)
(***************************************************************************)
\* v is an array whose elements are all strings
IsStringArray(v) ==
    /\ v.type = "array"
    /\ \A i \in 1..Len(v.items) : v.items[i].type = "string"

\* C15: runAIRecruiter returns only a result whose Score is an integer in
\* 0..100, whose Verdict is one of the four verdicts, whose Feedback is a
\* string and whose Pros and Cons are arrays of strings; for any other
\* reply the call throws
C15_OnlyValidResults ==
    outcome.kind = "returned" =>
        /\ outcome.value.Score.type = "number"
        /\ outcome.value.Score.den = 1
        /\ outcome.value.Score.num \in 0..100
        /\ outcome.value.Verdict.type = "string"
        /\ outcome.value.Verdict.str \in Range(validVerdicts)
        /\ outcome.value.Feedback.type = "string"
        /\ IsStringArray(outcome.value.Pros)
        /\ IsStringArray(outcome.value.Cons)

(***************************************************************************)
(* Properties of runSemanticATS.                                           *)
(***************************************************************************)
RECURSIVE DotOf(_, _)
\* the dot product of two vectors of one length
DotOf(a, b) ==
    IF a = << >> THEN 0 ELSE Head(a) * Head(b) + DotOf(Tail(a), Tail(b))

\* the service answered with fewer than two vectors, or with two vectors
\* of different lengths
IsBadEmbedding(reply) ==
    /\ reply.kind = "embeddings"
    /\ \/ ~reply.isArray
       \/ Len(reply.embeddings) < 2
       \/ Len(reply.embeddings[1]) # Len(reply.embeddings[2])

\* C20: a call of runSemanticATS whose service response holds fewer than
\* two vectors, or two vectors of different lengths, throws and returns no
\* score; every call that gets two vectors of one length returns the result
\* of those vectors, whether or not an earlier call failed.
C20_FailureConfinedToCall ==
    \A i \in 1..Len(callLog) :
        LET reply == callLog[i].reply
            ended == callLog[i].outcome
        IN  /\ IsBadEmbedding(reply) => ended.kind = "threw"
            /\ (reply.kind = "embeddings" /\ ~IsBadEmbedding(reply)) =>
                   /\ ended.kind = "returned"
                   /\ ended.value.dot =
                          DotOf(reply.embeddings[1], reply.embeddings[2])

\* a call fails on vectors of lengths 3 and 2, and the next call returns
C20_Witness ==
    /\ Len(callLog) = 2
    /\ callLog[1].reply = EmbedReply(TRUE, << << 1, 2, 2 >>, << 3, 4 >> >>)
    /\ callLog[1].outcome = Threw("Vector dimension mismatch: 3 vs 2")
    /\ callLog[2].outcome.kind = "returned"
    /\ callLog[2].outcome.value.dot = 3
    /\ outcome = callLog[2].outcome

(***************************************************************************)
(* Properties of the API routes.                                           *)
(***************************************************************************)
\* the failures of a service that are rate limiting
RateLimitErrors == {
    ServiceError("[429 Too Many Requests] Resource has been exhausted"),
    ServiceError("Status code: 429 Body: too many requests") }

\* the route called its engine and the call threw
EngineThrew ==
    /\ route \in { "semantic", "ai-recruiter" }
    /\ outcome.kind = "threw"

\* C16: when the engine call of the semantic or of the AI recruiter route
\* throws, the response has status 429 and the rate-limit message if the
\* failure is the service's rate limiting, and status 500 and the generic
\* message for every other failure.
C16_RateLimitExactly ==
    EngineThrew =>
        IF serviceReply \in RateLimitErrors
        THEN /\ response.status = 429
             /\ response.body.error = IF route = "semantic"
                                      THEN "Cohere rate limit reached."
                                      ELSE "Gemini rate limit reached."
        ELSE /\ response.status = 500
             /\ response.body.error = IF route = "semantic"
                                      THEN "Semantic engine failed."
                                      ELSE "AI Recruiter failed."

\* the field is a string or is not there
IsTextOrMissing(value) == value.type \in { "string", "undefined" }

\* the field is not there, or its text has fewer than 50 characters once
\* the white space around it is taken away
MissingOrShort(value) ==
    \/ value.type = "undefined"
    \/ value.type = "string" /\ Len(Trim(value.str)) < 50

\* C17: the legacy route calls runLegacyATS only for a body whose resumeText
\* and jobDescription both have at least 50 characters after trimming, and
\* calls it with the two trimmed texts; when a field of the body is missing
\* or shorter (the fields being strings where present) the response has
\* status 400 and runLegacyATS is not called.
C17_LengthGate ==
    route = "legacy" =>
        /\ invocations # << >> =>
               /\ requestBody.kind = "json"
               /\ requestBody.resumeText.type = "string"
               /\ requestBody.jobDescription.type = "string"
               /\ ~MissingOrShort(requestBody.resumeText)
               /\ ~MissingOrShort(requestBody.jobDescription)
               /\ invocations =
                      << [engine |-> "legacy",
                          resumeText |-> Trim(requestBody.resumeText.str),
                          jobDescription |-> Trim(requestBody.jobDescription.str)] >>
        /\ ( /\ requestBody.kind = "json"
             /\ IsTextOrMissing(requestBody.resumeText)
             /\ IsTextOrMissing(requestBody.jobDescription)
             /\ \/ MissingOrShort(requestBody.resumeText)
                \/ MissingOrShort(requestBody.jobDescription) ) =>
               /\ response.status = 400
               /\ invocations = << >>

\* a resume of 50 characters inside white space and a job description of 50
\* characters: the engine is called with the 50 characters of each
C17_Witness ==
    /\ route = "legacy"
    /\ requestBody = JSONBody(JString("\n " \o Text50 \o "  "), JString(Text50))
    /\ invocations = << [engine |-> "legacy", resumeText |-> Text50,
                         jobDescription |-> Text50] >>
    /\ response.status = 200

(***************************************************************************)
(* Properties of the evaluate page.                                        *)
(***************************************************************************)
\* the engine requests run n has sent, oldest first
EngineRequestsOf(n) ==
    SelectSeq(requests, LAMBDA r : r.run = n /\ r.endpoint # "/api/parse-pdf")

InsertedFields == {
    "user_id", "resume_id", "job_description",
    "legacy_score", "legacy_matched", "legacy_missing", "legacy_details",
    "semantic_score", "semantic_details",
    "ai_score", "ai_verdict", "ai_feedback", "ai_pros", "ai_cons", "ai_details" }

\* C18 as stated: the record sent to the store holds the composite score of
\* its evaluation.
C18_AsClaimed ==
    \A i \in 1..Len(inserted) :
        /\ "composite_score" \in DOMAIN inserted[i].row
        /\ inserted[i].row.composite_score = runs[inserted[i].run].compositeScore

\* C18: a record is sent to the store only for an authenticated user and
\* after all three engines have succeeded; it holds the user, the job
\* description and the three engines' outputs of that evaluation and no
\* composite score; the composite of the evaluation is in the page's result.
C18_InsertedRecord ==
    /\ Len(inserted) <= Len(runs)
    /\ \A i \in 1..Len(inserted) :
        LET row == inserted[i].row
            run == runs[inserted[i].run]
        IN  /\ user # NoUser
            /\ AllReturned(run.settled)
            /\ DOMAIN row = InsertedFields
            /\ row.user_id = user.id
            /\ row.resume_id = run.resumeId
            /\ row.job_description = run.jobDescription
            /\ row.legacy_details = run.settled.legacy.value
            /\ row.legacy_score = run.settled.legacy.value.score
            /\ row.legacy_matched = run.settled.legacy.value.matchedKeywords
            /\ row.legacy_missing = run.settled.legacy.value.missingKeywords
            /\ row.semantic_details = run.settled.semantic.value
            /\ row.semantic_score = run.settled.semantic.value.score
            /\ row.ai_details = run.settled.ai.value
            /\ row.ai_score = run.settled.ai.value.Score
            /\ row.ai_verdict = run.settled.ai.value.Verdict
            /\ row.ai_feedback = run.settled.ai.value.Feedback
            /\ row.ai_pros = run.settled.ai.value.Pros
            /\ row.ai_cons = run.settled.ai.value.Cons
            /\ run.pc = "done" =>
                   /\ pageResult.compositeScore = run.compositeScore
                   /\ pageResult.compositeScore =
                          CompositeOf(row.legacy_score, row.semantic_score,
                                      row.ai_score)

\* the evaluation of an authenticated user has been stored and is shown
C18_Witness ==
    /\ user # NoUser
    /\ Len(inserted) = 1
    /\ pageState = "done"
    /\ pageResult.id = ErrorText("row-1")
    /\ runs[1].pc = "done"

\* C19: in every evaluation the engine requests are sent all three at once,
\* legacy, semantic, AI recruiter, before the answer to any of them is
\* handled, each with the resume text and the job description of that
\* evaluation; the composite score exists only when all three calls have
\* returned, and is computed from their three scores.
C19_ConcurrentEngines ==
    \A n \in 1..Len(runs) :
        LET sent == EngineRequestsOf(n)
            run  == runs[n]
        IN  /\ Len(sent) \in { 0, 3 }
            /\ (\E i \in 1..Len(Engines) : run.settled[Engines[i]] # NoOutcome)
                   => Len(sent) = 3
            /\ Len(sent) = 3 =>
                   \A i \in 1..3 :
                       /\ sent[i].endpoint = EndpointOf[Engines[i]]
                       /\ sent[i].body = [resumeText |-> run.resumeText,
                                          jobDescription |-> run.jobDescription]
            /\ run.compositeScore # NaN =>
                   /\ AllReturned(run.settled)
                   /\ run.compositeScore =
                          CompositeOf(run.settled.legacy.value.score,
                                      run.settled.semantic.value.score,
                                      run.settled.ai.value.Score)

\* all three have returned and the composite of 3.5, 63 and 1 is computed
C19_Witness ==
    /\ Len(runs) = 1
    /\ Len(EngineRequestsOf(1)) = 3
    /\ AllReturned(runs[1].settled)
    /\ runs[1].compositeScore # NaN
    /\ runs[1].compositeScore = CompositeOf(Quotient(35, 10), Quotient(63, 1),
                                            Quotient(1, 1))

\* the run of the submission the page is showing
Current == runs[Len(runs)]

\* the requests of run n to the parse-pdf route
ParseRequestsOf(n) ==
    SelectSeq(requests, LAMBDA r : r.run = n /\ r.endpoint = "/api/parse-pdf")

\* run n ended when the parse-pdf route answered without success
ParseFailed(n) == runs[n].pc = "failed" /\ ~runs[n].issued

\* C21: when the parse-pdf route answers a submission without success, the
\* page is in the error state (or idle again after "Try again") with the
\* error of the route as errorMsg and no result, the submission has sent no
\* engine request, and the route has been called once for each submission
\* and no more.
C21_ParseFailureEnds ==
    /\ \A n \in 1..Len(runs) :
           /\ Len(ParseRequestsOf(n)) = 1
           /\ ParseFailed(n) => EngineRequestsOf(n) = << >>
    /\ Len(SelectSeq(requests, LAMBDA r : r.endpoint = "/api/parse-pdf")) = Len(runs)
    /\ (runs # << >> /\ ParseFailed(Len(runs))) =>
           /\ pageState \in { "error", "idle" }
           /\ errorMsg = ErrorText("Could not extract readable text. The PDF may be image-based or encrypted.")
           /\ pageResult = Null

\* the parse of the second submission has failed too, after "Try again"
C21_Witness ==
    /\ Len(runs) = 2
    /\ ParseFailed(1)
    /\ ParseFailed(2)
    /\ pageState = "error"
    /\ Len(requests) = 2

\* what callEngine throws for the failing answer of each engine's route
FailureMessageOf ==
    [legacy   |-> "Legacy engine failed.",
     semantic |-> "Cohere rate limit reached.",
     ai       |-> "/api/engines/ai-recruiter returned 502"]

\* the engines whose call has failed in the run
FailedEngines(run) ==
    { i \in 1..Len(Engines) : run.settled[Engines[i]].kind = "threw" }

\* C23: when a call of an engine has failed in the submission the page is
\* showing, the run has ended in the catch block: pageState is error (or
\* idle again after "Try again"), errorMsg is the message of a failed call
\* of this submission (of the failed call if there is one), result is null,
\* no composite was computed and no row was inserted for it, whatever the
\* other two engines answered.
C23_AnyFailureEnds ==
    (runs # << >> /\ FailedEngines(Current) # {}) =>
        /\ Current.pc = "failed"
        /\ pageState \in { "error", "idle" }
        /\ \E i \in FailedEngines(Current) :
               errorMsg = ErrorText(FailureMessageOf[Engines[i]])
        /\ pageResult = Null
        /\ Current.compositeScore = NaN
        /\ \A i \in 1..Len(inserted) : inserted[i].run # Len(runs)

\* the AI recruiter alone has failed, after the two others had returned
C23_Witness ==
    /\ Len(runs) = 1
    /\ Current.settled.legacy.kind = "returned"
    /\ Current.settled.semantic.kind = "returned"
    /\ Current.settled.ai.kind = "threw"
    /\ pageState = "error"
    /\ errorMsg = ErrorText("/api/engines/ai-recruiter returned 502")

PageTransitions == {
    << "idle", "parsing" >>, << "parsing", "running" >>, << "running", "done" >>,
    << "parsing", "error" >>, << "running", "error" >>, << "error", "idle" >> }

\* pageState is done and the result holds the three outputs of the
\* submission shown and the composite of their three scores
ResultOfOneSubmission ==
    pageState = "done" =>
        /\ pageResult # Null
        /\ AllReturned(Current.settled)
        /\ pageResult.legacy = Current.settled.legacy.value
        /\ pageResult.semantic = Current.settled.semantic.value
        /\ pageResult.aiRecruiter = Current.settled.ai.value
        /\ pageResult.jobDescription = Current.jobDescription
        /\ pageResult.compositeScore =
               CompositeOf(pageResult.legacy.score, pageResult.semantic.score,
                           pageResult.aiRecruiter.Score)

\* C24: whenever pageState is done, result is not null and holds the
\* legacy, semantic and AI recruiter outputs of one submission and the
\* composite computed from these three; and pageState changes only from
\* idle to parsing, parsing to running, running to done, parsing or running
\* to error, and error to idle.
C24_PageStateMachine ==
    /\ []ResultOfOneSubmission
    /\ [][pageState' # pageState => << pageState, pageState' >> \in PageTransitions]_vars

\* a second submission, after a failed one, has ended in done
C24_Witness ==
    /\ Len(runs) = 2
    /\ runs[1].pc = "failed"
    /\ pageState = "done"
    /\ pageResult # Null

\* the status an engine has when only the call of run counts
StatusIn(run, name) ==
    IF ~run.issued THEN "pending"
    ELSE IF run.settled[name] = NoOutcome THEN "running"
    ELSE IF run.settled[name].kind = "returned" THEN "done"
    ELSE "error"

\* C25: once a new submission has been started after a failed one, the
\* status of each engine is the status of the call of the new submission,
\* and result, errorMsg and pageState are those of the new submission,
\* whatever calls of the earlier submission complete meanwhile.
C25_StaleCompletionsIgnored ==
    Len(runs) >= 2 =>
        /\ \A i \in 1..Len(Engines) :
               engineStatus[Engines[i]] = StatusIn(Current, Engines[i])
        /\ Current.pc \in { "parsePDF", "getUser", "insertResume" } =>
               /\ pageState = "parsing"
               /\ errorMsg = Null
               /\ pageResult = Null
        /\ Current.pc \in { "engines", "insertEvaluation" } =>
               /\ pageState = "running"
               /\ errorMsg = Null
               /\ pageResult = Null


(***************************************************************************)
(* The request interceptor.  src/src/proxy.ts exports proxy; the same      *)
(* function is in src/unnamed/part_002 (as middleware) and in              *)
(* src/unnamed/part_003 lines 81-156.  src/unnamed/part_003 lines 1-80 is  *)
(* src/middleware.ts, which leaves /evaluate open and has its own matcher. *)
(* deployed says which of the two the site runs: "proxy" or "middleware".  *)
(***************************************************************************)
\* s.startsWith(prefix)
StartsWith(s, prefix) ==
    /\ Len(s) >= Len(prefix)
    /\ SubSeq(s, 1, Len(prefix)) = prefix

\* whether s ends with suffix: the $ of the matcher's pattern
EndsWith(s, suffix) ==
    /\ Len(s) >= Len(suffix)
    /\ SubSeq(s, Len(s) - Len(suffix) + 1, Len(s)) = suffix

ProtectedWithoutEvaluate(file) == { "/dashboard", "/results" }

ProtectedWithLogin(file) == { "/dashboard", "/evaluate", "/results", "/login" }

PROTECTED_ROUTES(file) ==
    IF file = "middleware"
    THEN { "/dashboard", "/results" }
    ELSE { "/dashboard", "/evaluate", "/results" }

AUTH_ROUTES == { "/login", "/signup" }

\* the file types the matcher of proxy.ts leaves out
ImageTypes == { "svg", "png", "jpg", "jpeg", "gif", "webp" }

\* config.matcher of proxy.ts: every path except the framework's own files
\* and images; the dot of favicon.ico is the pattern's any-character dot
MatchesAllButStatic(pathname) ==
    /\ StartsWith(pathname, "/")
    /\ \E rest \in { SubSeq(pathname, 2, Len(pathname)) } :
        /\ ~StartsWith(rest, "_next/static")
        /\ ~StartsWith(rest, "_next/image")
        /\ ~(/\ StartsWith(rest, "favicon")
             /\ Len(rest) >= 11
             /\ SubSeq(rest, 9, 11) = "ico")
        /\ \A type \in ImageTypes : ~EndsWith(rest, "." \o type)

\* config.matcher of middleware.ts: the three sections and the two pages
MatchesListed(pathname) ==
    \/ pathname \in { "/login", "/signup" }
    \/ \E section \in { "/dashboard", "/results", "/evaluate" } :
        \/ pathname = section
        \/ StartsWith(pathname, section \o "/")

Matcher(file, pathname) ==
    IF file = "middleware"
    THEN MatchesListed(pathname)
    ELSE MatchesAllButStatic(pathname)

\* NextResponse.redirect(url): the path of url and its search parameters
Redirect(pathname, searchParams) ==
    [kind |-> "redirect", pathname |-> pathname,
     searchParams |-> searchParams]

\* NextResponse.next(...)
PassThrough == [kind |-> "next"]

\* a request the matcher keeps away from the interceptor
Unmatched == [kind |-> "unmatched"]

\* proxy(request), for a request with or without a user and its pathname
proxy(file, hasUser, pathname) ==
    LET isProtected ==
            \E r \in PROTECTED_ROUTES(file) : StartsWith(pathname, r)
        isAuthPage == \E r \in AUTH_ROUTES : StartsWith(pathname, r)
    IN  IF isProtected /\ ~hasUser
        THEN Redirect("/login", << <<"redirectedFrom", pathname>> >>)
        ELSE IF isAuthPage /\ hasUser
        THEN Redirect("/evaluate", << >>)
        ELSE PassThrough

\* the redirects a browser follows before the model stops counting
MaxRedirects == 3

Paths ==
    { "/", "/dashboard", "/dashboard/settings", "/dashboards", "/evaluate",
      "/evaluate/history", "/results/42", "/login", "/login/reset",
      "/signup", "/api/engines/legacy", "/favicon.ico",
      "/dashboard/chart.png", "/_next/static/app.js", "/about", "/results",
      "/signup/confirm" }

ProxyInit ==
    /\ text = ""
    /\ called = "none"
    /\ normalised = ""
    /\ keywords = NoKeywords
    /\ resumeText = ""
    /\ jobDescription = ""
    /\ typed = 0
    /\ engine = "none"
    /\ result = NoResult
    /\ jdLength = 0
    /\ matchedLength = 0
    /\ rated = NotRated
    /\ LoopIdle
    /\ ScoresIdle
    /\ CallsIdle
    /\ RoutesIdle
    /\ PageIdle
    /\ ParseIdle
    /\ ZoneIdle
    /\ deployed \in { "proxy", "middleware" }
    /\ session \in BOOLEAN
    /\ location \in Paths
    /\ proxyResponse = NoAnswer
    /\ redirects = 0

outsideProxy == <<coreVars, loopVars, scoreVars, callVars, routeVars,
                  pageVars, deployed, session, parseVars, zoneVars>>

\* the request for location reaches the site
Intercept ==
    /\ proxyResponse = NoAnswer
    /\ proxyResponse' =
        IF Matcher(deployed, location)
        THEN proxy(deployed, session, location)
        ELSE Unmatched
    /\ UNCHANGED <<location, redirects, outsideProxy>>

\* the browser follows the redirect it was answered with
FollowRedirect ==
    /\ proxyResponse.kind = "redirect"
    /\ redirects < MaxRedirects
    /\ location' = proxyResponse.pathname
    /\ redirects' = redirects + 1
    /\ proxyResponse' = NoAnswer
    /\ UNCHANGED outsideProxy

\* the user, on a page that was served, goes to another path
Navigate(pathname) ==
    /\ proxyResponse.kind \in { "next", "unmatched" }
    /\ pathname # location
    /\ location' = pathname
    /\ redirects' = 0
    /\ proxyResponse' = NoAnswer
    /\ UNCHANGED outsideProxy

ProxyNext ==
    \/ Intercept
    \/ FollowRedirect
    \/ \E pathname \in Paths : Navigate(pathname)

ProxySpec == ProxyInit /\ [][ProxyNext]_vars

C28_NoRedirectLoop ==
    /\ redirects <= 1
    /\ (redirects = 1 /\ proxyResponse # NoAnswer)
        => proxyResponse.kind \in { "next", "unmatched" }

C28_Witness ==
    /\ redirects = 1
    /\ session
    /\ location = "/evaluate"
    /\ proxyResponse = PassThrough


(***************************************************************************)
(* The PDF route (app/api/parse-pdf/route.ts).  A request is the form it   *)
(* carries: whether it has a file, the file's type and size, and what      *)
(* pdf-parse makes of the file.  src/unnamed/part_005 is the same route    *)
(* with longer error messages.                                             *)
(***************************************************************************)
\* const MAX_BYTES = 5 * 1024 * 1024
MAX_BYTES == 5242880

\* text.length < 50
MinExtractedLength == 50

\* (file.size / 1024 / 1024).toFixed(1): the nearest tenth, the larger of
\* two equally near ones
MegaBytes(size) ==
    LET n == (size * 10 + 524288) \div 1048576
    IN  IntText(n \div 10) \o "." \o IntText(n % 10)

ExtractedTextUntrimmed(parsed) ==
    IF parsed.text.type = "undefined" THEN "" ELSE parsed.text.str

\* parsed.text?.trim() ?? ""
ExtractedText(parsed) ==
    IF parsed.text.type = "undefined" THEN "" ELSE Trim(parsed.text.str)

\* POST of the PDF route; the message of the 400 answer has the word file
\* between grave accents, written here between apostrophes
ParsePDFResponse(form) ==
    IF form.kind = "malformed"
    THEN Response(500, FailureBody("Failed to parse PDF.",
                                   "Failed to parse body as FormData."))
    ELSE IF form.file # "file"
    THEN Response(400, ErrorBody(
             "No file provided. Send a PDF as 'file' in form-data."))
    ELSE IF form.type # "application/pdf"
    THEN Response(415, ErrorBody("Invalid file type: " \o form.type
                                 \o ". Only PDFs accepted."))
    ELSE IF form.size > MAX_BYTES
    THEN Response(413, ErrorBody("File too large: " \o MegaBytes(form.size)
                                 \o " MB. Max 5 MB."))
    ELSE IF form.parsed.kind = "threw"
    THEN Response(500, FailureBody("Failed to parse PDF.",
                                   form.parsed.error))
    ELSE LET Answer(extracted) ==
                 IF Len(extracted) < MinExtractedLength
                 THEN Response(422, ErrorBody(
                          "Could not extract readable text. The PDF may be image-based or encrypted."))
                 ELSE Response(200, [text |-> extracted,
                                     charCount |-> Len(extracted),
                                     pageCount |-> form.parsed.numpages])
         IN  ApplyTo(Answer, ExtractedText(form.parsed))

\* what pdf-parse returns
Parsed(parsedText, numpages) ==
    [kind |-> "parsed", text |-> parsedText, numpages |-> numpages]

Form(file, type, size, parsed) ==
    [kind |-> "form", file |-> file, type |-> type, size |-> size,
     parsed |-> parsed]

ParsedTexts == {
    JUndefined, JString(""), JString(" \n\n "),
    JString(Text49), JString("  " \o Text49 \o " \n\n"),
    JString(Text50), JString("\n " \o Text50 \o "  "),
    JString(Text50 \o "\n\n" \o Text49) }

Uploads ==
    { [kind |-> "malformed"],
      Form("none", "", 0, Threw("")),
      Form("string", "", 0, Threw("")),
      Form("file", "image/png", 2048, Threw("Invalid PDF structure")),
      Form("file", "application/pdf", 5242881, Parsed(JString(Text50), 1)),
      Form("file", "application/pdf", 6029313, Parsed(JString(Text50), 1)),
      Form("file", "application/pdf", 2048, Threw("Invalid PDF structure")) }
    \cup { Form("file", "application/pdf", size, Parsed(parsedText, 2)) :
               size \in { 2048, 5242880 }, parsedText \in ParsedTexts }

ParseInit ==
    /\ text = ""
    /\ called = "none"
    /\ normalised = ""
    /\ keywords = NoKeywords
    /\ resumeText = ""
    /\ jobDescription = ""
    /\ typed = 0
    /\ engine = "none"
    /\ result = NoResult
    /\ jdLength = 0
    /\ matchedLength = 0
    /\ rated = NotRated
    /\ LoopIdle
    /\ ScoresIdle
    /\ CallsIdle
    /\ PageIdle
    /\ ProxyIdle
    /\ ParseIdle
    /\ ZoneIdle
    /\ route = "none"
    /\ envKey \in BOOLEAN
    /\ requestBody = [kind |-> "none"]
    /\ response = NoResponse
    /\ invocations = << >>

\* the PDF route gets a request with this form
PostParsePDF(form) ==
    /\ upload.kind = "none"
    /\ upload' = form
    /\ parseResponse' = ParsePDFResponse(form)
    /\ UNCHANGED <<coreVars, loopVars, scoreVars, callVars, routeVars,
                   pageVars, proxyVars, zoneVars>>

\* the body the evaluate page sends to an engine route with the text of a
\* successful answer of the PDF route
BodiesOfParsed ==
    IF parseResponse.status = 200
    THEN { JSONBody(JString(parseResponse.body.text), jd) :
               jd \in { JString(Text49), JString(Text50 \o "\n") } }
    ELSE { }

ParseNext ==
    \/ \E form \in Uploads : PostParsePDF(form)
    \/ \E body \in BodiesOfParsed : PostLegacy(body)
    \/ \E body \in BodiesOfParsed : PostSemantic(body)
    \/ \E body \in BodiesOfParsed : PostAIRecruiter(body)

ParseSpec == ParseInit /\ [][ParseNext]_vars

\* C27: a 200 answer of the PDF route carries the trimmed text of the PDF,
\* which has at least 50 characters, and charCount is its length; and an
\* engine route that gets this text as resumeText never answers with the
\* 400 of its resumeText check.
C27_ParsedTextAccepted ==
    /\ parseResponse.status = 200 =>
        /\ upload.kind = "form"
        /\ upload.parsed.kind = "parsed"
        /\ upload.parsed.text.type = "string"
        /\ parseResponse.body.text = Trim(upload.parsed.text.str)
        /\ Len(parseResponse.body.text) >= 50
        /\ parseResponse.body.charCount = Len(parseResponse.body.text)
    /\ (upload.kind # "none" /\ route # "none") =>
        /\ parseResponse.status = 200
        /\ requestBody.resumeText = JString(parseResponse.body.text)
        /\ response #
            Response(400,
                     ErrorBody("resumeText must be at least 50 characters."))

C27_Witness ==
    /\ upload.kind = "form"
    /\ upload.parsed.kind = "parsed"
    /\ upload.parsed.text = JString("\n " \o Text50 \o "  ")
    /\ parseResponse.status = 200
    /\ parseResponse.body.charCount = 50
    /\ route = "semantic"
    /\ response.status = 200


(***************************************************************************)
(* The upload form (components/upload/uploadZone.tsx).  handleSubmit is the *)
(* click handler of the submit button; the model calls it in every state   *)
(* of the form, also where the button is disabled.                         *)
(***************************************************************************)
JD_MIN_LENGTH == 50

JD_MAX_LENGTH == 8000

\* s repeated n times
RECURSIVE Repeat(_, _)
Repeat(s, n) ==
    IF n = 0 THEN ""
    ELSE IF n % 2 = 0 THEN Repeat(s \o s, n \div 2)
    ELSE s \o Repeat(s \o s, n \div 2)

\* a job description of 8000 characters
Text8000 == Repeat(Text50, 160)

\* formatBytes(bytes) for a file over the size limit
formatBytes(bytes) == MegaBytes(bytes) \o " MB"

\* what react-dropzone hands to onDrop: the accepted file, or the code and
\* message of the first error of the first rejection and the file's size
Accepted(name) == [kind |-> "accepted", file |-> [name |-> name]]

Rejected(code, message, size) ==
    [kind |-> "rejected", code |-> code, message |-> message, size |-> size]

Drops ==
    { Accepted("cv.pdf"),
      Rejected("file-too-large", "File is larger than 5242880 bytes",
               6029313),
      Rejected("file-invalid-type", "File type must be application/pdf",
               2048),
      Rejected("too-many-files", "Too many files", 2048) }

JDInputs ==
    { "", " \n ", Text49, "  " \o Text49 \o " \n\n", Text50,
      "\n " \o Text50 \o "  ", Text8000, " " \o Text8000 \o "\n",
      Text8000 \o "!" }

ZoneInit ==
    /\ text = ""
    /\ called = "none"
    /\ normalised = ""
    /\ keywords = NoKeywords
    /\ resumeText = ""
    /\ jobDescription = ""
    /\ typed = 0
    /\ engine = "none"
    /\ result = NoResult
    /\ jdLength = 0
    /\ matchedLength = 0
    /\ rated = NotRated
    /\ LoopIdle
    /\ ScoresIdle
    /\ CallsIdle
    /\ RoutesIdle
    /\ PageIdle
    /\ ProxyIdle
    /\ ParseIdle
    /\ ZoneIdle

outsideZone == <<coreVars, loopVars, scoreVars, callVars, routeVars,
                 pageVars, proxyVars, parseVars>>

\* onDrop(acceptedFiles, rejections); the drop zone is rendered only while
\* no file is selected
onDrop(drop) ==
    /\ selectedFile = Null
    /\ IF drop.kind = "rejected"
       THEN /\ fileError' =
                   IF drop.code = "file-too-large"
                   THEN ErrorText("File exceeds 5 MB limit ("
                                  \o formatBytes(drop.size) \o ").")
                   ELSE IF drop.code = "file-invalid-type"
                   THEN ErrorText("Only PDF files are accepted.")
                   ELSE ErrorText(drop.message)
            /\ dropState' = "rejected"
            /\ UNCHANGED selectedFile
       ELSE /\ fileError' = Null
            /\ selectedFile' = drop.file
            /\ dropState' = "accepted"
    /\ UNCHANGED <<jdInput, jdError, lastSubmit, outsideZone>>

\* onRemove of the file preview, rendered only while a file is selected
onRemove ==
    /\ selectedFile # Null
    /\ selectedFile' = Null
    /\ dropState' = "idle"
    /\ fileError' = Null
    /\ UNCHANGED <<jdInput, jdError, lastSubmit, outsideZone>>

\* onChange of the textarea
onChange(value) ==
    /\ value # jdInput
    /\ jdInput' = value
    /\ jdError' = Null
    /\ UNCHANGED <<selectedFile, dropState, fileError, lastSubmit,
                   outsideZone>>

JDErrorNoUpperLimit(length) ==
    IF length < JD_MIN_LENGTH
    THEN ErrorText("Job description must be at least "
                   \o IntText(JD_MIN_LENGTH) \o " characters.")
    ELSE Null

\* handleSubmit: what setJdError gets for a trimmed text of this length
JDError(length) ==
    IF length < JD_MIN_LENGTH
    THEN ErrorText("Job description must be at least "
                   \o IntText(JD_MIN_LENGTH) \o " characters.")
    ELSE IF length > JD_MAX_LENGTH
    THEN ErrorText("Job description must not exceed "
                   \o IntText(JD_MAX_LENGTH) \o " characters.")
    ELSE Null

\* handleSubmit(): lastSubmit records the state it ran in and the payload
\* it gave to onSubmit, if it called onSubmit
handleSubmit ==
    /\ \E trimmedJD \in { Trim(jdInput) } :
        /\ fileError' =
              IF selectedFile = Null
              THEN ErrorText("Please upload your resume PDF.")
              ELSE fileError
        /\ jdError' = JDError(Len(trimmedJD))
        /\ lastSubmit' =
              [kind |-> "called", selectedFile |-> selectedFile,
               jobDescription |-> jdInput,
               onSubmit |->
                  IF selectedFile # Null /\ jdError' = Null
                  THEN [kind |-> "payload", file |-> selectedFile,
                        jobDescription |-> trimmedJD]
                  ELSE Absent]
    /\ UNCHANGED <<selectedFile, jdInput, dropState, outsideZone>>

ZoneNext ==
    \/ \E drop \in Drops : onDrop(drop)
    \/ onRemove
    \/ \E value \in JDInputs : onChange(value)
    \/ handleSubmit

ZoneSpec == ZoneInit /\ [][ZoneNext]_vars


\* C29: every call of handleSubmit gives onSubmit the selected file and the
\* trimmed job description if a file is selected and the trimmed job
\* description has 50 to 8000 characters; otherwise it does not call
\* onSubmit and leaves fileError or jdError set.
C29_SubmitOnlyValid ==
    [][lastSubmit' # lastSubmit =>
        LET file == lastSubmit'.selectedFile
            trimmed == Trim(lastSubmit'.jobDescription)
        IN  IF file # Null /\ Len(trimmed) >= 50 /\ Len(trimmed) <= 8000
            THEN lastSubmit'.onSubmit =
                    [kind |-> "payload", file |-> file,
                     jobDescription |-> trimmed]
            ELSE /\ lastSubmit'.onSubmit = Absent
                 /\ fileError' # Null \/ jdError' # Null]_vars

C29_Witness ==
    /\ lastSubmit.kind = "called"
    /\ lastSubmit.jobDescription = " " \o Text8000 \o "\n"
    /\ lastSubmit.onSubmit.kind = "payload"
    /\ lastSubmit.onSubmit.jobDescription = Text8000


(***************************************************************************)
(* The two variants of runLegacyATS on texts that hold punctuation in and  *)
(* around their words, the resume and the job description also being the   *)
(* same text.                                                              *)
(***************************************************************************)
MatchSeeds == {
    "", "the a of", "c++ developer",
    "Senior C++ / C# engineer (.NET, Node.js)",
    "machine learning and REST API design",
    "next.js or nextajs", "ci/cd e-mail 2024 007",
    "Java, SQL and java", "full-stack@back end_dev",
    "node.js. c++, x+ -y y- .net" }

MatchInit ==
    /\ text = ""
    /\ called = "none"
    /\ normalised = ""
    /\ keywords = NoKeywords
    /\ resumeText \in MatchSeeds
    /\ jobDescription \in MatchSeeds
    /\ typed = 0
    /\ engine = "none"
    /\ result = NoResult
    /\ jdLength = 0
    /\ matchedLength = 0
    /\ rated = NotRated
    /\ OthersIdle

MatchNext ==
    \/ RunLegacyATS
    \/ RunLegacyATSSimple

MatchSpec == MatchInit /\ [][MatchNext]_vars

\* C26: when the phrase-table variant is run with one text as resume and as
\* job description, and the text has a keyword, then matchRate is 1, score
\* is 100 and missingKeywords is empty.
C26_SelfMatch ==
    (/\ engine = "phrases"
     /\ resumeText = jobDescription
     /\ extractKeywords(jobDescription) # << >>)
    => /\ result.matchRate = Quotient(1, 1)
       /\ result.score = Quotient(100, 1)
       /\ result.missingKeywords = << >>
       /\ result.matchedKeywords = extractKeywords(jobDescription)

C26_Witness ==
    /\ engine = "phrases"
    /\ resumeText = "node.js. c++, x+ -y y- .net"
    /\ jobDescription = resumeText
    /\ result.totalJDKeywords = 6
    /\ result.score = Quotient(100, 1)

\* the words of the lower-cased resume: what is between its white space
ResumeTokens(resume) == Range(SplitWhitespace(toLowerCase(resume)))

\* C30: the simple variant reports as matched every keyword of the job
\* description that is a whole white-space-delimited token of the
\* lower-cased resume.
C30_WholeTokensMatched ==
    engine = "simple" =>
        \A k \in Range(extractKeywordsSimple(jobDescription)) :
            k \in ResumeTokens(resumeText)
                => k \in Range(result.matchedKeywords)

============================================================================
